---- MODULE Spec2Model ----
(***************************************************************************)
(* Verification model of the credential query and derivation pipeline of   *)
(* sparql-proof-demo: the RDF materializer, the query gate and executor    *)
(* (executeSPARQLQuery), the query interface component that drives them,   *)
(* the validity-period intersection, the canonical hasher and the derived  *)
(* credential assembler (createDerivedCredentialsFromConstruct).           *)
(***************************************************************************)
EXTENDS Integers, Sequences, FiniteSets, TLC

\* ------------------------------------------------------------------ bounds
\* Largest number of credentials held by the wallet.
MaxCreds == 2

\* ------------------------------------------------------------- RDF terms
NamedNode(v) == [termType |-> "NamedNode", value |-> v]

BlankNode(v) == [termType |-> "BlankNode", value |-> v]

Literal(v) == [termType |-> "Literal", value |-> v]

DefaultGraph == [termType |-> "DefaultGraph", value |-> ""]

Quad(s, p, o, g) == [subject |-> s, predicate |-> p, object |-> o, graph |-> g]

\* A set as a sequence, in one fixed order (the order a store or an engine
\* enumerates its content in).
RECURSIVE SetToSeq(_)
SetToSeq(S) ==
  IF S = {} THEN <<>>
  ELSE LET x == CHOOSE y \in S : TRUE IN <<x>> \o SetToSeq(S \ {x})

Range(seq) == {seq[i] : i \in 1..Len(seq)}

\* ------------------------------------------------------------ credentials
\* A date string: a textual form and the instant it denotes.
DateString(form, t) == [form |-> form, time |-> t]

NoDate == [form |-> "undefined", time |-> 0]

Credential(id, issued, expires) ==
  [id |-> id, issuanceDate |-> issued, expirationDate |-> expires]

\* The credentials a wallet can hold in the query interface model.
\*   urn:alice  converts to one statement of the default graph;
\*   urn:bob    carries a proof: one statement of the default graph and one
\*              of the proof's (blank-node named) graph;
\*   urn:prot   its context redefines a protected term: conversion throws;
\*   urn:bad    its context cannot be loaded: conversion throws;
\*   urn:odd    converts, but its N-Quads text has a term the N3 parser
\*              rejects after the first statement has been delivered;
\*   urn:family   converts to two statements of the default graph, the birth
\*                dates of two subjects;
\*   urn:derived  the credential createDerivedCredential returns.
CredAlice == Credential("urn:alice", DateString("iso", 1), NoDate)

CredBob == Credential("urn:bob", DateString("iso", 2), DateString("iso", 3))

CredProt == Credential("urn:prot", DateString("iso", 1), NoDate)

CredBad == Credential("urn:bad", DateString("iso", 1), NoDate)

CredOdd == Credential("urn:odd", DateString("iso", 1), NoDate)

CredentialPool == {CredAlice, CredBob, CredProt, CredBad, CredOdd}

SchemaName == NamedNode("schema:name")

BirthDate == NamedNode("schema:birthDate")

Vaccine == NamedNode("vaccination:vaccine")

ProofValue == NamedNode("sec:proofValue")

\* jsonld.toRDF(credential): throws, or the statements of the document in
\* the order of its N-Quads text.
JsonldToRDF(credential) ==
  CASE credential.id = "urn:alice" ->
         [throws |-> FALSE,
          quads |-> << Quad(NamedNode("did:alice"), SchemaName, Literal("Alice"), DefaultGraph) >>]
    [] credential.id = "urn:bob" ->
         [throws |-> FALSE,
          quads |-> << Quad(NamedNode("did:bob"), SchemaName, Literal("Bob"), DefaultGraph),
                       Quad(BlankNode("b0"), ProofValue, Literal("zQ"), BlankNode("b1")) >>]
    [] credential.id \in {"urn:prot", "urn:bad"} ->
         [throws |-> TRUE, quads |-> << >>]
    [] credential.id = "urn:odd" ->
         [throws |-> FALSE,
          quads |-> << Quad(NamedNode("did:eve"), SchemaName, Literal("Eve"), DefaultGraph),
                       Quad(NamedNode("did:eve"), Vaccine, NamedNode("urn:cvx{207}"), DefaultGraph) >>]
    [] credential.id = "urn:family" ->
         [throws |-> FALSE,
          quads |-> << Quad(NamedNode("did:carol"), BirthDate, Literal("1990-01-01"), DefaultGraph),
                       Quad(NamedNode("did:dan"), BirthDate, Literal("2015-05-05"), DefaultGraph) >>]
    [] OTHER ->
         [throws |-> FALSE,
          quads |-> << Quad(NamedNode("did:derived"), NamedNode("cred:derivedFrom"),
                            Literal("urn"), DefaultGraph) >>]

\* The N3 parser on the N-Quads text of a credential: the position of the
\* first statement it rejects (0 when it rejects none). The statements before
\* that position have been delivered to the callback when the error arrives.
NQuadsErrorAt(credential) == IF credential.id = "urn:odd" THEN 2 ELSE 0

\* ---------------------------------------------------------------- queries
\* A query text. extracted = TRUE is the SELECT text regenerated by toSparql
\* from the CONSTRUCT query `text` (projection of its WHERE algebra).
QueryText(text) == [text |-> text, extracted |-> FALSE]

ExtractedSelect(q) == [text |-> q.text, extracted |-> TRUE]

DefaultQuery == QueryText("SELECT * WHERE { ?s ?p ?o . }")

\* getSampleSPARQLQueries(): sample queries by name, in the order of the list
\* (two of its SELECT queries and one of its CONSTRUCT queries).
getSampleSPARQLQueries ==
  << QueryText("Get All Names"),
     QueryText("Verify Adult Status (CONSTRUCT)"),
     QueryText("Get Vaccination Status") >>

\* Texts a user or the assistant can put in the editor besides the samples.
OtherQueryTexts ==
  { DefaultQuery, QueryText("ASK { ?s ?p ?o }"), QueryText("DESCRIBE <did:alice>"),
    QueryText("INSERT DATA { <a> <b> <c> }"), QueryText("DELETE WHERE { ?s ?p ?o }"),
    QueryText("SELEKT nonsense"), QueryText("") }

QueryTexts == Range(getSampleSPARQLQueries) \cup OtherQueryTexts

\* The texts typed into the editor of the query interface.
EditorTexts ==
  Range(getSampleSPARQLQueries) \cup
  { DefaultQuery, QueryText("ASK { ?s ?p ?o }"), QueryText("INSERT DATA { <a> <b> <c> }"),
    QueryText("SELEKT nonsense"), QueryText("") }

\* The SPARQL form of a query text.
QueryForm(q) ==
  IF q.extracted THEN "SELECT"
  ELSE CASE q.text \in {"Get All Names", "Get Vaccination Status",
                        "SELECT * WHERE { ?s ?p ?o . }"} -> "SELECT"
         [] q.text = "Verify Adult Status (CONSTRUCT)" -> "CONSTRUCT"
         [] q.text = "ASK { ?s ?p ?o }" -> "ASK"
         [] q.text = "DESCRIBE <did:alice>" -> "DESCRIBE"
         [] q.text = "INSERT DATA { <a> <b> <c> }" -> "INSERT"
         [] q.text = "DELETE WHERE { ?s ?p ?o }" -> "DELETE"
         [] OTHER -> "INVALID"

\* The variables a query projects (SELECT) or its template mentions (CONSTRUCT).
QueryVars(q) ==
  CASE q.text = "Get All Names" -> <<"givenName", "familyName", "fullName">>
    [] q.text = "Verify Adult Status (CONSTRUCT)" -> <<"subject", "isAdult">>
    [] q.text = "Get Vaccination Status" -> <<"recipient", "vaccine", "date", "location">>
    [] q.text = "SELECT * WHERE { ?s ?p ?o . }" -> <<"s", "p", "o">>
    [] OTHER -> << >>

\* Whether the WHERE pattern of a query matches a statement.
QueryMatches(q, quad) ==
  CASE q.text = "Get All Names" -> quad.predicate = SchemaName
    [] q.text = "Verify Adult Status (CONSTRUCT)" -> quad.predicate = BirthDate
    [] q.text = "Get Vaccination Status" -> quad.predicate = Vaccine
    [] OTHER -> TRUE

\* translate(text) of sparqlalgebrajs: throws on a syntax error, otherwise the
\* algebra with its type discriminator.
translate(q) ==
  LET form == QueryForm(q) IN
  [threw |-> form = "INVALID",
   type |-> CASE form = "SELECT" -> "project"
              [] form = "CONSTRUCT" -> "construct"
              [] form = "ASK" -> "ask"
              [] form = "DESCRIBE" -> "describe"
              [] form \in {"INSERT", "DELETE"} -> "deleteinsert"
              [] OTHER -> "none",
   variables |-> QueryVars(q)]

\* ------------------------------------------------------------------ errors
NoError == [name |-> "none", code |-> "none", message |-> << >>]

Error(message) == [name |-> "Error", code |-> "none", message |-> message]

CredentialError(message, code) ==
  [name |-> "CredentialError", code |-> code, message |-> message]

\* -------------------------------------------------- executeSPARQLQuery
\* The for loop of executeSPARQLQuery over the credentials: the store after
\* it. jsonld.toRDF returns the whole dataset or throws; store.addAll adds
\* every statement of the dataset, whatever its graph.
RECURSIVE AddCredentialsToStore(_, _)
AddCredentialsToStore(creds, store) ==
  IF creds = << >> THEN store
  ELSE LET rdfDataset == JsonldToRDF(Head(creds)) IN
       AddCredentialsToStore(Tail(creds),
         IF rdfDataset.throws THEN store ELSE store \cup Range(rdfDataset.quads))

\* The credentials the loop reports with console.warn, in order.
RECURSIVE WarnedCredentials(_)
WarnedCredentials(creds) ==
  IF creds = << >> THEN << >>
  ELSE (IF JsonldToRDF(Head(creds)).throws THEN << Head(creds).id >> ELSE << >>)
       \o WarnedCredentials(Tail(creds))

\* queryEngine.queryBindings(query, {sources: [store]}) followed by toArray():
\* one binding per statement of the default graph that the pattern matches.
QueryBindings(sparqlQuery, store) ==
  SetToSeq({ [subject |-> quad.subject, predicate |-> quad.predicate, object |-> quad.object] :
             quad \in { x \in store : x.graph = DefaultGraph /\ QueryMatches(sparqlQuery, x) } })

\* One invocation of the evaluation engine: the text and the source it got.
EngineCall(sparqlQuery, store) ==
  [query |-> sparqlQuery, type |-> translate(sparqlQuery).type, sources |-> store]

\* What a call did: what it threw (NoError when it returned), the value it
\* returned, the engine invocations it made, the credentials it reported and
\* the store it built.
Outcome(thrown, value, engine, warned, store) ==
  [thrown |-> thrown, value |-> value, engine |-> engine, warned |-> warned, store |-> store]

\* The try block without the test of algebra.type.
ExecuteSPARQLQueryTryAnyType(sparqlQuery, creds, engineThrows) ==
  LET algebra == translate(sparqlQuery)
      store == AddCredentialsToStore(creds, {})
      warned == WarnedCredentials(creds)
  IN
  IF algebra.threw THEN
    Outcome(Error(<<"Parse error">>), << >>, << >>, << >>, {})
  ELSE IF Len(creds) = 0 THEN
    Outcome(NoError, << >>, << >>, << >>, {})
  ELSE IF Cardinality(store) = 0 THEN
    Outcome(NoError, << >>, << >>, warned, store)
  ELSE IF engineThrows THEN
    Outcome(Error(<<"Engine error">>), << >>, << EngineCall(sparqlQuery, store) >>, warned, store)
  ELSE
    Outcome(NoError, QueryBindings(sparqlQuery, store),
            << EngineCall(sparqlQuery, store) >>, warned, store)

\* The try block without the early returns on an empty list and an empty store.
ExecuteSPARQLQueryTryNoEarlyReturn(sparqlQuery, creds, engineThrows) ==
  LET algebra == translate(sparqlQuery)
      store == AddCredentialsToStore(creds, {})
      warned == WarnedCredentials(creds)
  IN
  IF algebra.threw THEN
    Outcome(Error(<<"Parse error">>), << >>, << >>, << >>, {})
  ELSE IF algebra.type # "project" THEN
    Outcome(CredentialError(<<"Only SELECT queries are supported in executeSPARQLQuery">>,
                            "UNSUPPORTED_QUERY_TYPE"), << >>, << >>, << >>, {})
  ELSE IF engineThrows THEN
    Outcome(Error(<<"Engine error">>), << >>, << EngineCall(sparqlQuery, store) >>, warned, store)
  ELSE
    Outcome(NoError, QueryBindings(sparqlQuery, store),
            << EngineCall(sparqlQuery, store) >>, warned, store)

\* The try block of executeSPARQLQuery. engineThrows: the engine fails on
\* this evaluation.
ExecuteSPARQLQueryTry(sparqlQuery, creds, engineThrows) ==
  LET algebra == translate(sparqlQuery)
      store == AddCredentialsToStore(creds, {})
      warned == WarnedCredentials(creds)
  IN
  IF algebra.threw THEN
    Outcome(Error(<<"Parse error">>), << >>, << >>, << >>, {})
  ELSE IF algebra.type # "project" THEN
    Outcome(CredentialError(<<"Only SELECT queries are supported in executeSPARQLQuery">>,
                            "UNSUPPORTED_QUERY_TYPE"), << >>, << >>, << >>, {})
  ELSE IF Len(creds) = 0 THEN
    Outcome(NoError, << >>, << >>, << >>, {})
  ELSE IF Cardinality(store) = 0 THEN
    Outcome(NoError, << >>, << >>, warned, store)
  ELSE IF engineThrows THEN
    Outcome(Error(<<"Engine error">>), << >>, << EngineCall(sparqlQuery, store) >>, warned, store)
  ELSE
    Outcome(NoError, QueryBindings(sparqlQuery, store),
            << EngineCall(sparqlQuery, store) >>, warned, store)

\* A catch block that wraps whatever it catches.
ExecuteSPARQLQueryCatchWrapsAll(error) ==
  CredentialError(<<"SPARQL query failed: ">> \o error.message, "SPARQL_ERROR")

\* The catch block of executeSPARQLQuery: a CredentialError is rethrown as it
\* is, anything else is wrapped as SPARQL_ERROR with the original message.
ExecuteSPARQLQueryCatch(error) ==
  IF error.name = "CredentialError" THEN error
  ELSE CredentialError(<<"SPARQL query failed: ">> \o error.message, "SPARQL_ERROR")

executeSPARQLQuery(sparqlQuery, creds, engineThrows) ==
  LET r == ExecuteSPARQLQueryTry(sparqlQuery, creds, engineThrows) IN
  IF r.thrown = NoError THEN r
  ELSE [r EXCEPT !.thrown = ExecuteSPARQLQueryCatch(r.thrown)]

\* hashString: SHA-256 of a text, taken to be injective.
hashString(str) == [sha256 |-> str]

\* A derivation that lists and counts only the sources that converted.
createDerivedCredentialOverSources(sparqlQuery, sourceCredentials, template, now, engineThrows) ==
  LET r == executeSPARQLQuery(sparqlQuery, sourceCredentials, engineThrows)
      ids == [i \in 1..Len(sourceCredentials) |-> sourceCredentials[i].id]
      used == SelectSeq(ids, LAMBDA id : id \notin Range(r.warned))
  IN
  IF r.thrown # NoError THEN
    [r EXCEPT !.thrown = CredentialError(<<"Failed to create derived credential: ">>
                                           \o r.thrown.message, "DERIVATION_ERROR")]
  ELSE
    [r EXCEPT !.value =
       [id |-> template.id,
        issuer |-> template.issuer,
        issuanceDate |-> DateString("iso", now),
        expirationDate |-> NoDate,
        credentialSubject |->
          [derivedFrom |-> used, sparqlQuery |-> sparqlQuery, queryResults |-> r.value],
        derivationMetadata |->
          [sourceCredentials |-> Len(used),
           queryHash |-> hashString(sparqlQuery)]]]

\* createDerivedCredential(sparqlQuery, sourceCredentials, template) at time
\* `now`: the credential it returns, or the DERIVATION_ERROR it throws.
createDerivedCredential(sparqlQuery, sourceCredentials, template, now, engineThrows) ==
  LET r == executeSPARQLQuery(sparqlQuery, sourceCredentials, engineThrows) IN
  IF r.thrown # NoError THEN
    [r EXCEPT !.thrown = CredentialError(<<"Failed to create derived credential: ">>
                                           \o r.thrown.message, "DERIVATION_ERROR")]
  ELSE
    [r EXCEPT !.value =
       [id |-> template.id,
        issuer |-> template.issuer,
        issuanceDate |-> DateString("iso", now),
        expirationDate |-> NoDate,
        credentialSubject |->
          [derivedFrom |-> [i \in 1..Len(sourceCredentials) |-> sourceCredentials[i].id],
           sparqlQuery |-> sparqlQuery,
           queryResults |-> r.value],
        derivationMetadata |->
          [sourceCredentials |-> Len(sourceCredentials),
           queryHash |-> hashString(sparqlQuery)]]]

\* ------------------------------------------------ the query interface
VARIABLES
  credentials,             \* Home: the wallet's credential list (the component's prop)
  query,                   \* the editor's text
  queryResults,            \* the rows of the last successful execution
  isConstructQuery,        \* the rows preview a CONSTRUCT query
  error,                   \* the message shown (<< >> is null)
  rdfData,                 \* the combined RDF text shown
  availableSampleQueries,  \* the sample queries offered
  calls,                   \* the executeSPARQLQuery calls of the latest step
  rdfStore,                \* the store and the reports of the latest loadRDF run
  derived,                 \* the outcome of the createDerivedCredential call of the latest step
  selectedResults,         \* the selected rows, in the order of their selection
                           \* (row k of the table is index k - 1 in the code)
  constructResult,         \* the text the last construction returned
  constructed              \* the executeConstructQuery call of the latest step

uiVars == << credentials, query, queryResults, isConstructQuery, error, rdfData,
             availableSampleQueries, calls, rdfStore, derived,
             selectedResults, constructResult, constructed >>

\* constructResult when it is the empty string.
NoConstructResult == [kind |-> "empty"]

\* The instants the clock shows when a credential is derived.
Clock == {4}

NullError == << >>

Call(sparqlQuery, creds, outcome) ==
  [sparqlQuery |-> sparqlQuery, credentials |-> creds, outcome |-> outcome]

NoDerived == [called |-> FALSE]

\* query.trim() is empty.
IsBlank(q) == q.text = ""

\* The loop of loadRDF over the credentials: jsonld.toRDF to N-Quads text,
\* then the N3 parser delivers the statements one by one to store.addQuad and
\* rejects the promise when it reports an error.
RECURSIVE LoadCredentialsToStore(_, _)
LoadCredentialsToStore(creds, store) ==
  IF creds = << >> THEN store
  ELSE LET nquads == JsonldToRDF(Head(creds))
           k == NQuadsErrorAt(Head(creds))
           delivered == IF nquads.throws THEN {}
                        ELSE IF k = 0 THEN Range(nquads.quads)
                        ELSE {nquads.quads[i] : i \in 1..(k - 1)}
       IN LoadCredentialsToStore(Tail(creds), store \cup delivered)

\* The credentials loadRDF reports with console.warn, in order.
RECURSIVE LoadWarned(_)
LoadWarned(creds) ==
  IF creds = << >> THEN << >>
  ELSE (IF JsonldToRDF(Head(creds)).throws \/ NQuadsErrorAt(Head(creds)) # 0
        THEN << Head(creds).id >> ELSE << >>) \o LoadWarned(Tail(creds))

\* prettyTurtle(quads, {prefixes}): the text of a statement set.
prettyTurtle(quads) == [kind |-> "turtle", quads |-> quads]

RdfMessage(text) == [kind |-> "message", quads |-> {}, text |-> text]

\* The effect that loads the combined RDF text for a credential list: the
\* text it sets. prettyThrows: the formatter fails.
LoadRDF(creds, prettyThrows) ==
  IF Len(creds) > 0 THEN
    LET store == LoadCredentialsToStore(creds, {})
        allQuads == store
        defaultGraphQuads == {quad \in allQuads : quad.graph.value = ""}
    IN IF prettyThrows THEN RdfMessage("# Error loading RDF data")
       ELSE prettyTurtle(defaultGraphQuads)
  ELSE RdfMessage("# No credentials available")

\* What the same run left in its store and reported.
LoadRDFStore(creds) ==
  [store |-> LoadCredentialsToStore(creds, {}), warned |-> LoadWarned(creds),
   credentials |-> creds]

\* The effect that filters the sample queries: its executeSPARQLQuery calls,
\* sample by sample. failing: the samples on which the engine fails.
RECURSIVE FilterCalls(_, _, _)
FilterCalls(i, creds, failing) ==
  IF i > Len(getSampleSPARQLQueries) THEN << >>
  ELSE LET sampleQuery == getSampleSPARQLQueries[i]
           algebra == translate(sampleQuery)
       IN (IF ~algebra.threw /\ algebra.type = "project"
           THEN << Call(sampleQuery, creds, executeSPARQLQuery(sampleQuery, creds, i \in failing)) >>
           ELSE << >>) \o FilterCalls(i + 1, creds, failing)

\* The samples the effect keeps.
RECURSIVE ValidQueries(_, _, _)
ValidQueries(i, creds, failing) ==
  IF i > Len(getSampleSPARQLQueries) THEN << >>
  ELSE LET sampleQuery == getSampleSPARQLQueries[i]
           algebra == translate(sampleQuery)
           results == executeSPARQLQuery(sampleQuery, creds, i \in failing)
           keep == /\ ~algebra.threw
                   /\ \/ algebra.type = "project" /\ results.thrown = NoError
                                                  /\ Len(results.value) > 0
                      \/ algebra.type = "construct"
       IN (IF keep THEN << sampleQuery >> ELSE << >>) \o ValidQueries(i + 1, creds, failing)

filterSampleQueries(creds, failing) ==
  IF Len(creds) = 0 THEN << >> ELSE ValidQueries(1, creds, failing)

FilterSampleQueriesCalls(creds, failing) ==
  IF Len(creds) = 0 THEN << >> ELSE FilterCalls(1, creds, failing)

\* The indices of the SELECT samples.
SelectSamples ==
  {i \in 1..Len(getSampleSPARQLQueries) : translate(getSampleSPARQLQueries[i]).type = "project"}

\* Both effects of the component run for a new credential list (with a
\* formatter that succeeds).
CredentialsEffects(creds, priorCalls) ==
  \E failing \in SUBSET SelectSamples :
    /\ rdfData' = LoadRDF(creds, FALSE)
    /\ rdfStore' = LoadRDFStore(creds)
    /\ availableSampleQueries' = filterSampleQueries(creds, failing)
    /\ calls' = priorCalls \o FilterSampleQueriesCalls(creds, failing)

\* validateSPARQLQuery(queryText).
validateSPARQLQuery(queryText) ==
  LET algebra == translate(queryText) IN
  IF algebra.threw THEN [isValid |-> FALSE, error |-> <<"Parse error">>]
  ELSE IF algebra.type # "project" /\ algebra.type # "construct"
       THEN [isValid |-> FALSE,
             error |-> <<"Only SELECT and CONSTRUCT queries are currently supported">>]
       ELSE [isValid |-> TRUE, error |-> << >>]

\* ------------------------------------- state of the function-level checks
VARIABLES
  vpCredentials,       \* getValidityPeriodIntersection: its argument
  validityPeriod,      \* getValidityPeriodIntersection: its result
  hashQuadsA,          \* canonicalizeAndHash: the first statement list
  hashQuadsB,          \* canonicalizeAndHash: the second statement list
  digestA,             \* canonicalizeAndHash(hashQuadsA)
  digestB,             \* canonicalizeAndHash(hashQuadsB)
  constructQuads,      \* createDerivedCredentialsFromConstruct: the statements
  selectedBindings,    \* createDerivedCredentialsFromConstruct: the bindings
  sourceCredentials,   \* createDerivedCredentialsFromConstruct: the sources
  derivedCredentials,  \* createDerivedCredentialsFromConstruct: its outcome
  turtle,              \* convertToTurtle: its latest call
  requests,            \* the requests the latest step sent to remote hosts
  extracted            \* the variables and the SELECT extracted from a CONSTRUCT algebra

vpVars == << vpCredentials, validityPeriod >>

hashVars == << hashQuadsA, hashQuadsB, digestA, digestB >>

deriveVars == << constructQuads, selectedBindings, sourceCredentials, derivedCredentials >>

fnVars == << turtle, requests, extracted >>

\* ------------------------------------- state of the page and of the build
VARIABLES
  isExecuting,   \* the query interface: a pipeline operation is running
  inFlight,      \* the asynchronous functions that have started and not yet
                 \* settled, each with the values its closure captured
  localStorage,  \* Home: the item 'wallet-credentials'
  added,         \* the credentials handleAddCredential was called with
  apiKeys,       \* process.env: the providers an API key is set for
  reply          \* callLLMForSPARQLAssistance: what its latest call returned

hostVars == << isExecuting, inFlight, localStorage, added, apiKeys, reply >>

vars == << uiVars, vpVars, hashVars, deriveVars, fnVars, hostVars >>

NotRun == [run |-> FALSE]

VpIdle == vpCredentials = << >> /\ validityPeriod = NotRun

HashIdle == hashQuadsA = << >> /\ hashQuadsB = << >> /\ digestA = NotRun /\ digestB = NotRun

DeriveIdle ==
  /\ constructQuads = << >> /\ selectedBindings = << >>
  /\ sourceCredentials = << >> /\ derivedCredentials = NotRun

\* ------------------------------------------- query interface: the steps
UiInit ==
  /\ credentials = << >>
  /\ query = DefaultQuery
  /\ queryResults = << >>
  /\ isConstructQuery = FALSE
  /\ error = NullError
  /\ rdfData = LoadRDF(<< >>, FALSE)
  /\ rdfStore = LoadRDFStore(<< >>)
  /\ availableSampleQueries = << >>
  /\ calls = << >>
  /\ derived = NoDerived
  /\ selectedResults = << >>
  /\ constructResult = NoConstructResult
  /\ constructed = NotRun
  /\ turtle = NotRun
  /\ requests = << >>
  /\ extracted = NotRun
  /\ isExecuting = FALSE /\ inFlight = << >> /\ localStorage = << >> /\ added = << >>
  /\ apiKeys = {} /\ reply = NotRun

\* The credentials offered to the wallet of the query interface.
WalletPool == {CredAlice, CredProt}

\* Home.handleAddCredential, and the component's effects on the new list.
\* The wallet is offered each credential of the pool once.
HandleAddCredential ==
  \E credential \in WalletPool :
    /\ Len(credentials) < MaxCreds
    /\ credential \notin Range(credentials)
    /\ credentials' = Append(credentials, credential)
    /\ CredentialsEffects(credentials', << >>)
    /\ derived' = NoDerived
    /\ constructed' = NotRun
    /\ UNCHANGED << query, queryResults, isConstructQuery, error >>
    /\ UNCHANGED << selectedResults, constructResult >>
    /\ UNCHANGED << vpVars, hashVars, deriveVars, fnVars, hostVars >>

\* Home.handleDeleteCredential, and the component's effects on the new list.
HandleDeleteCredential ==
  \E i \in 1..Len(credentials) :
    /\ credentials' = SelectSeq(credentials, LAMBDA cred : cred.id # credentials[i].id)
    /\ CredentialsEffects(credentials', << >>)
    /\ derived' = NoDerived
    /\ constructed' = NotRun
    /\ UNCHANGED << query, queryResults, isConstructQuery, error >>
    /\ UNCHANGED << selectedResults, constructResult >>
    /\ UNCHANGED << vpVars, hashVars, deriveVars, fnVars, hostVars >>

\* The editor's onChange.
SetQuery ==
  \E text \in EditorTexts :
    /\ query' = text
    /\ calls' = << >>
    /\ derived' = NoDerived
    /\ constructed' = NotRun
    /\ UNCHANGED << credentials, queryResults, isConstructQuery, error, rdfData,
                    availableSampleQueries, rdfStore, selectedResults, constructResult >>
    /\ UNCHANGED << vpVars, hashVars, deriveVars, fnVars, hostVars >>

loadSampleQuery ==
  \E i \in 1..Len(availableSampleQueries) :
    /\ query' = availableSampleQueries[i]
    /\ queryResults' = << >>
    /\ isConstructQuery' = FALSE
    /\ error' = NullError
    /\ calls' = << >>
    /\ derived' = NoDerived
    /\ selectedResults' = << >>
    /\ constructResult' = NoConstructResult
    /\ constructed' = NotRun
    /\ UNCHANGED << credentials, rdfData, availableSampleQueries, rdfStore >>
    /\ UNCHANGED << vpVars, hashVars, deriveVars, fnVars, hostVars >>

\* applySuggestedQuery on an assistant message whose first sparql block is
\* `text`; the button is rendered only when validateSPARQLQuery accepts it.
applySuggestedQuery ==
  \E text \in EditorTexts :
    /\ validateSPARQLQuery(text).isValid
    /\ query' = text
    /\ queryResults' = << >>
    /\ error' = NullError
    /\ calls' = << >>
    /\ derived' = NoDerived
    /\ constructed' = NotRun
    /\ UNCHANGED << credentials, isConstructQuery, rdfData, availableSampleQueries, rdfStore,
                    selectedResults, constructResult >>
    /\ UNCHANGED << vpVars, hashVars, deriveVars, fnVars, hostVars >>

\* The catch block of the component's executeQuery.
ExecuteQueryCatch(message) ==
  /\ error' = message
  /\ isConstructQuery' = FALSE
  /\ constructResult' = NoConstructResult
  /\ UNCHANGED << queryResults, selectedResults >>

\* The component's executeQuery (the Execute button).
executeQuery ==
  \E engineThrows \in BOOLEAN :
    /\ IF IsBlank(query) THEN
         /\ error' = <<"Please enter a SPARQL query">>
         /\ calls' = << >>
         /\ UNCHANGED << queryResults, isConstructQuery, selectedResults, constructResult >>
       ELSE IF Len(credentials) = 0 THEN
         /\ error' = <<"No credentials available to query">>
         /\ calls' = << >>
         /\ UNCHANGED << queryResults, isConstructQuery, selectedResults, constructResult >>
       ELSE
         LET algebra == translate(query) IN
         IF algebra.threw THEN
           /\ calls' = << >>
           /\ ExecuteQueryCatch(<<"Parse error">>)
         ELSE IF algebra.type = "construct" THEN
           LET selectQuery == ExtractedSelect(query)
               results == executeSPARQLQuery(selectQuery, credentials, engineThrows)
           IN /\ calls' = << Call(selectQuery, credentials, results) >>
              /\ IF results.thrown # NoError THEN
                   ExecuteQueryCatch(<<"Failed to get SELECT results for CONSTRUCT query: ">>
                                       \o results.thrown.message)
                 ELSE
                   /\ isConstructQuery' = TRUE
                   /\ queryResults' = results.value
                   /\ error' = NullError
                   /\ selectedResults' = << >>
                   /\ constructResult' = NoConstructResult
         ELSE IF algebra.type = "project" THEN
           LET results == executeSPARQLQuery(query, credentials, engineThrows)
           IN /\ calls' = << Call(query, credentials, results) >>
              /\ IF results.thrown # NoError THEN
                   ExecuteQueryCatch(results.thrown.message)
                 ELSE
                   /\ isConstructQuery' = FALSE
                   /\ queryResults' = results.value
                   /\ error' = NullError
                   /\ constructResult' = NoConstructResult
                   /\ UNCHANGED selectedResults
         ELSE
           /\ calls' = << >>
           /\ ExecuteQueryCatch(<<"Only SELECT and CONSTRUCT queries are supported">>)
    /\ derived' = NoDerived
    /\ constructed' = NotRun
    /\ UNCHANGED << credentials, query, rdfData, availableSampleQueries, rdfStore >>
    /\ UNCHANGED << vpVars, hashVars, deriveVars, fnVars, hostVars >>

\* The form of the derived credential, filled in.
DerivedCredentialForm == [id |-> "urn:derived", issuer |-> "did:example:derived-issuer"]

\* The component's createDerived (form filled in); on success the credential
\* goes to Home.handleAddCredential through onDerivedCredentialCreated.
createDerived ==
  \E engineThrows \in BOOLEAN, now \in Clock :
    IF Len(queryResults) = 0 THEN
      /\ error' = <<"Please execute a query first to create a derived credential">>
      /\ calls' = << >>
      /\ derived' = NoDerived
      /\ constructed' = NotRun
      /\ UNCHANGED << credentials, query, queryResults, isConstructQuery, rdfData,
                      availableSampleQueries, rdfStore, selectedResults, constructResult >>
      /\ UNCHANGED << vpVars, hashVars, deriveVars, fnVars, hostVars >>
    ELSE
      LET r == createDerivedCredential(query, credentials, DerivedCredentialForm, now, engineThrows)
          inner == executeSPARQLQuery(query, credentials, engineThrows)
      IN /\ derived' = [called |-> TRUE, sparqlQuery |-> query, credentials |-> credentials,
                        outcome |-> r]
         /\ IF r.thrown # NoError THEN
              /\ error' = r.thrown.message
              /\ calls' = << Call(query, credentials, inner) >>
              /\ UNCHANGED << credentials, rdfData, availableSampleQueries, rdfStore >>
            ELSE
              /\ Len(credentials) < MaxCreds
              /\ error' = NullError
              /\ credentials' = Append(credentials,
                     Credential(r.value.id, r.value.issuanceDate, r.value.expirationDate))
              /\ CredentialsEffects(credentials', << Call(query, credentials, inner) >>)
         /\ constructed' = NotRun
         /\ UNCHANGED << query, queryResults, isConstructQuery, selectedResults, constructResult >>
         /\ UNCHANGED << vpVars, hashVars, deriveVars, fnVars, hostVars >>

Init == UiInit /\ VpIdle /\ HashIdle /\ DeriveIdle

\* ------------------------------------------ the exported functions, called
\* Every list of at most n distinct credentials of a pool.
CredentialLists(pool, n) ==
  UNION { { seq \in [1..k -> pool] : \A i, j \in 1..k : i # j => seq[i] # seq[j] } : k \in 0..n }

\* The query texts the functions are called with: every text, and the SELECT
\* texts the component regenerates from the CONSTRUCT queries.
CallTexts ==
  QueryTexts \cup {ExtractedSelect(q) : q \in {x \in QueryTexts : QueryForm(x) = "CONSTRUCT"}}

NotLoaded == RdfMessage("")

PipelineInit ==
  /\ credentials \in CredentialLists(CredentialPool, MaxCreds)
  /\ query = DefaultQuery
  /\ queryResults = << >>
  /\ isConstructQuery = FALSE
  /\ error = NullError
  /\ rdfData = NotLoaded
  /\ rdfStore = LoadRDFStore(<< >>)
  /\ availableSampleQueries = << >>
  /\ calls = << >>
  /\ derived = NoDerived
  /\ selectedResults = << >>
  /\ constructResult = NoConstructResult
  /\ constructed = NotRun
  /\ turtle = NotRun
  /\ requests = << >>
  /\ extracted = NotRun
  /\ isExecuting = FALSE /\ inFlight = << >> /\ localStorage = << >> /\ added = << >>
  /\ apiKeys = {} /\ reply = NotRun
  /\ VpIdle /\ HashIdle /\ DeriveIdle

\* executeSPARQLQuery(text, credentials) called on its own.
CallExecuteSPARQLQuery ==
  \E text \in CallTexts, engineThrows \in BOOLEAN :
    /\ calls' = << Call(text, credentials, executeSPARQLQuery(text, credentials, engineThrows)) >>
    /\ derived' = NoDerived
    /\ rdfData' = NotLoaded
    /\ rdfStore' = LoadRDFStore(<< >>)
    /\ availableSampleQueries' = << >>
    /\ turtle' = NotRun
    /\ extracted' = NotRun
    /\ requests' = << >>
    /\ UNCHANGED << credentials, query, queryResults, isConstructQuery, error >>
    /\ UNCHANGED << selectedResults, constructResult, constructed >>
    /\ UNCHANGED << vpVars, hashVars, deriveVars, hostVars >>

\* A derivation that stamps each source with the id of the credential derived
\* from it.
CallCreateDerivedCredentialStampsSources ==
  \E text \in CallTexts, engineThrows \in BOOLEAN, now \in Clock :
    /\ derived' = [called |-> TRUE, sparqlQuery |-> text, credentials |-> credentials,
                   outcome |-> createDerivedCredential(text, credentials, DerivedCredentialForm,
                                                       now, engineThrows)]
    /\ calls' = << Call(text, credentials, executeSPARQLQuery(text, credentials, engineThrows)) >>
    /\ credentials' = [i \in 1..Len(credentials) |->
                         [credentials[i] EXCEPT !.id = DerivedCredentialForm.id]]
    /\ rdfData' = NotLoaded
    /\ rdfStore' = LoadRDFStore(<< >>)
    /\ availableSampleQueries' = << >>
    /\ turtle' = NotRun
    /\ extracted' = NotRun
    /\ requests' = << >>
    /\ UNCHANGED << query, queryResults, isConstructQuery, error >>
    /\ UNCHANGED << selectedResults, constructResult, constructed >>
    /\ UNCHANGED << vpVars, hashVars, deriveVars, hostVars >>

\* createDerivedCredential(text, credentials, template) called on its own.
CallCreateDerivedCredential ==
  \E text \in CallTexts, engineThrows \in BOOLEAN, now \in Clock :
    /\ derived' = [called |-> TRUE, sparqlQuery |-> text, credentials |-> credentials,
                   outcome |-> createDerivedCredential(text, credentials, DerivedCredentialForm,
                                                       now, engineThrows)]
    /\ calls' = << Call(text, credentials, executeSPARQLQuery(text, credentials, engineThrows)) >>
    /\ rdfData' = NotLoaded
    /\ rdfStore' = LoadRDFStore(<< >>)
    /\ availableSampleQueries' = << >>
    /\ turtle' = NotRun
    /\ extracted' = NotRun
    /\ requests' = << >>
    /\ UNCHANGED << credentials, query, queryResults, isConstructQuery, error >>
    /\ UNCHANGED << selectedResults, constructResult, constructed >>
    /\ UNCHANGED << vpVars, hashVars, deriveVars, hostVars >>

\* The loadRDF effect run on the credentials.
CallLoadRDF ==
  \E prettyThrows \in BOOLEAN :
    /\ rdfData' = LoadRDF(credentials, prettyThrows)
    /\ rdfStore' = LoadRDFStore(credentials)
    /\ calls' = << >>
    /\ derived' = NoDerived
    /\ availableSampleQueries' = << >>
    /\ turtle' = NotRun
    /\ extracted' = NotRun
    /\ requests' = << >>
    /\ UNCHANGED << credentials, query, queryResults, isConstructQuery, error >>
    /\ UNCHANGED << selectedResults, constructResult, constructed >>
    /\ UNCHANGED << vpVars, hashVars, deriveVars, hostVars >>

\* The filterSampleQueries effect run on the credentials.
CallFilterSampleQueries ==
  \E failing \in SUBSET SelectSamples :
    /\ availableSampleQueries' = filterSampleQueries(credentials, failing)
    /\ calls' = FilterSampleQueriesCalls(credentials, failing)
    /\ derived' = NoDerived
    /\ rdfData' = NotLoaded
    /\ rdfStore' = LoadRDFStore(<< >>)
    /\ turtle' = NotRun
    /\ extracted' = NotRun
    /\ requests' = << >>
    /\ UNCHANGED << credentials, query, queryResults, isConstructQuery, error >>
    /\ UNCHANGED << selectedResults, constructResult, constructed >>
    /\ UNCHANGED << vpVars, hashVars, deriveVars, hostVars >>

\* createEnhancedTurtle(credential): the text written by hand from the
\* fields of the document.
createEnhancedTurtle(credential) ==
  [kind |-> "enhanced", id |-> credential.id, issuanceDate |-> credential.issuanceDate,
   expirationDate |-> credential.expirationDate]

\* convertToTurtle(credential): how its promise settles. The try block
\* awaits jsonld.toRDF and then returns a new promise without awaiting it:
\* the catch block sees a failure of jsonld.toRDF only. The promise is
\* rejected by the parser's error callback and by the writer's; a failure of
\* prettyTurtle is caught inside the callback and leads to the N3 writer.
\* prettyThrows, writeError: the formatter, the writer fails.
convertToTurtle(credential, prettyThrows, writeError) ==
  LET nquads == JsonldToRDF(credential)
      store == Range(nquads.quads)
  IN IF nquads.throws THEN
       [rejected |-> NoError, value |-> createEnhancedTurtle(credential)]
     ELSE IF NQuadsErrorAt(credential) # 0 THEN
       [rejected |-> Error(<<"Failed to parse RDF: ", "Parse error">>), value |-> << >>]
     ELSE IF ~prettyThrows THEN
       [rejected |-> NoError, value |-> prettyTurtle(store)]
     ELSE IF writeError THEN
       [rejected |-> Error(<<"Failed to serialize to Turtle: ", "Write error">>), value |-> << >>]
     ELSE
       [rejected |-> NoError, value |-> [kind |-> "n3-writer", quads |-> store]]

\* convertToTurtle called on one of the credentials.
CallConvertToTurtle ==
  \E i \in 1..Len(credentials), prettyThrows \in BOOLEAN, writeError \in BOOLEAN :
    /\ turtle' = [run |-> TRUE, credential |-> credentials[i], prettyThrows |-> prettyThrows,
                  writeError |-> writeError,
                  outcome |-> convertToTurtle(credentials[i], prettyThrows, writeError)]
    /\ requests' = << >>
    /\ extracted' = NotRun
    /\ calls' = << >>
    /\ derived' = NoDerived
    /\ rdfData' = NotLoaded
    /\ rdfStore' = LoadRDFStore(<< >>)
    /\ availableSampleQueries' = << >>
    /\ UNCHANGED << credentials, query, queryResults, isConstructQuery, error >>
    /\ UNCHANGED << selectedResults, constructResult, constructed >>
    /\ UNCHANGED << vpVars, hashVars, deriveVars, hostVars >>

\* createSPARQLSystemPrompt(credentials, rdfData): the system message. It
\* states the number of credentials, lists the type of each (here by the
\* document it is read from) and quotes the start of the RDF text when that
\* text is not empty (the texts of the model are shorter than the 1500
\* characters quoted).
createSPARQLSystemPrompt(creds, rdf) ==
  [count |-> Len(creds),
   credentialTypes |-> [i \in 1..Len(creds) |-> [typeOf |-> creds[i].id]],
   rdfData |-> IF rdf = RdfMessage("") THEN RdfMessage("No RDF data available") ELSE rdf]

\* The hosts of callOpenRouterAPI, callGroqAPI, callTogetherAPI,
\* callHuggingFaceAPI and callOpenAIAPI, in the order they are tried.
Providers ==
  << "openrouter.ai", "api.groq.com", "api.together.xyz", "api-inference.huggingface.co",
     "api.openai.com" >>

\* callLLMForSPARQLAssistance(userMessage, credentials, rdfData): the
\* requests it sends. A provider without an API key throws before any
\* request; a provider with a key posts the system prompt and the user's
\* message to its host, and the loop ends with the first provider that
\* answers. keyed: the providers with a key; answering: the first of them
\* that answers (0: none does).
RECURSIVE callLLMForSPARQLAssistance(_, _, _, _, _, _)
callLLMForSPARQLAssistance(i, userMessage, creds, rdf, keyed, answering) ==
  IF i > Len(Providers) THEN << >>
  ELSE IF i \notin keyed
  THEN callLLMForSPARQLAssistance(i + 1, userMessage, creds, rdf, keyed, answering)
  ELSE << [host |-> Providers[i], systemPrompt |-> createSPARQLSystemPrompt(creds, rdf),
           userMessage |-> userMessage] >>
       \o (IF i = answering THEN << >>
           ELSE callLLMForSPARQLAssistance(i + 1, userMessage, creds, rdf, keyed, answering))

\* sendChatMessage: the assistant is asked with the credentials and the RDF
\* text the component holds. The build has no API key, a key for the first
\* provider, keys for two later providers, or a key for each.
sendChatMessage ==
  \E keyed \in {{}, {1}, {3, 5}, 1..Len(Providers)} :
    \E answering \in keyed \cup {0} :
      /\ requests' = callLLMForSPARQLAssistance(1, "How do I list the names?", credentials,
                                                 rdfData, keyed, answering)
      /\ calls' = << >>
      /\ derived' = NoDerived
      /\ availableSampleQueries' = << >>
      /\ turtle' = NotRun
      /\ extracted' = NotRun
      /\ UNCHANGED << rdfData, rdfStore >>
      /\ UNCHANGED << credentials, query, queryResults, isConstructQuery, error >>
      /\ UNCHANGED << selectedResults, constructResult, constructed >>
      /\ UNCHANGED << vpVars, hashVars, deriveVars, hostVars >>

PipelineNext ==
  \/ CallExecuteSPARQLQuery
  \/ CallCreateDerivedCredential
  \/ CallLoadRDF
  \/ CallFilterSampleQueries
  \/ CallConvertToTurtle
  \/ sendChatMessage

SpecPipeline == PipelineInit /\ [][PipelineNext]_vars

Next ==
  \/ HandleAddCredential
  \/ HandleDeleteCredential
  \/ SetQuery
  \/ loadSampleQuery
  \/ applySuggestedQuery
  \/ executeQuery
  \/ createDerived

Spec == Init /\ [][Next]_vars

\* --------------------------------------- getValidityPeriodIntersection
MaxSources == 2

\* new Date(text): the instant, or an Invalid Date when the text does not
\* parse (new Date never throws).
NewDate(str) == [valid |-> str.form \notin {"invalid", "undefined"}, time |-> str.time]

\* date.toISOString(): the ISO text of the instant; a RangeError on an
\* Invalid Date.
ToISOString(date) ==
  IF date.valid THEN [threw |-> FALSE, text |-> DateString("iso", date.time)]
  ELSE [threw |-> TRUE, text |-> NoDate]

\* A reduce callback that keeps the earlier of two dates.
KeepEarlier(latest, current) ==
  IF latest.valid /\ current.valid /\ current.time < latest.time THEN current ELSE latest

\* (latest, current) => current > latest ? current : latest. A comparison
\* with an Invalid Date is false.
KeepLater(latest, current) ==
  IF latest.valid /\ current.valid /\ current.time > latest.time THEN current ELSE latest

\* (earliest, current) => current < earliest ? current : earliest.
KeepEarliest(earliest, current) ==
  IF earliest.valid /\ current.valid /\ current.time < earliest.time THEN current ELSE earliest

\* issuanceDates.reduce(...) without an initial value, on a non-empty array.
RECURSIVE ReduceLatest(_, _)
ReduceLatest(latest, dates) ==
  IF dates = << >> THEN latest
  ELSE ReduceLatest(KeepLater(latest, Head(dates)), Tail(dates))

\* expirationDates.reduce(...) without an initial value, on a non-empty array.
RECURSIVE ReduceEarliest(_, _)
ReduceEarliest(earliest, dates) ==
  IF dates = << >> THEN earliest
  ELSE ReduceEarliest(KeepEarliest(earliest, Head(dates)), Tail(dates))

\* getValidityPeriodIntersection(credentials): what it returns, or the error
\* it throws (a TypeError from reduce on an empty array, a RangeError from
\* toISOString on an Invalid Date).
getValidityPeriodIntersection(creds) ==
  IF Len(creds) = 0 THEN
    [run |-> TRUE, thrown |-> Error(<<"Reduce of empty array with no initial value">>),
     validFrom |-> NoDate, validUntil |-> NoDate]
  ELSE
    LET issuanceDates == [i \in 1..Len(creds) |-> NewDate(creds[i].issuanceDate)]
        validFrom == ToISOString(ReduceLatest(Head(issuanceDates), Tail(issuanceDates)))
        defined == SelectSeq([i \in 1..Len(creds) |-> creds[i].expirationDate],
                             LAMBDA date : date # NoDate)
        expirationDates == [i \in 1..Len(defined) |-> NewDate(defined[i])]
        validUntil == IF Len(expirationDates) > 0
                      THEN ToISOString(ReduceEarliest(Head(expirationDates),
                                                      Tail(expirationDates)))
                      ELSE [threw |-> FALSE, text |-> NoDate]
    IN IF validFrom.threw \/ validUntil.threw THEN
         [run |-> TRUE, thrown |-> Error(<<"Invalid time value">>),
          validFrom |-> NoDate, validUntil |-> NoDate]
       ELSE [run |-> TRUE, thrown |-> NoError,
             validFrom |-> validFrom.text, validUntil |-> validUntil.text]

\* The issuanceDate and expirationDate texts of the source credentials: full
\* ISO texts, date-only texts, a text that does not parse, and (expiration
\* only) undefined.
IssuanceDates ==
  { DateString("iso", 1), DateString("iso", 2), DateString("date", 2), DateString("date", 3),
    DateString("invalid", 0) }

ExpirationDates ==
  { NoDate, DateString("iso", 2), DateString("date", 4), DateString("iso", 5),
    DateString("invalid", 0) }

SourcePool ==
  { Credential("urn:source", issued, expires) : issued \in IssuanceDates, expires \in ExpirationDates }

UiIdle ==
  /\ credentials = << >>
  /\ query = DefaultQuery
  /\ queryResults = << >>
  /\ isConstructQuery = FALSE
  /\ error = NullError
  /\ rdfData = NotLoaded
  /\ rdfStore = LoadRDFStore(<< >>)
  /\ availableSampleQueries = << >>
  /\ calls = << >>
  /\ derived = NoDerived
  /\ selectedResults = << >>
  /\ constructResult = NoConstructResult
  /\ constructed = NotRun
  /\ turtle = NotRun
  /\ requests = << >>
  /\ extracted = NotRun
  /\ isExecuting = FALSE /\ inFlight = << >> /\ localStorage = << >> /\ added = << >>
  /\ apiKeys = {} /\ reply = NotRun

ValidityInit ==
  /\ vpCredentials \in UNION { [1..k -> SourcePool] : k \in 0..MaxSources }
  /\ validityPeriod = NotRun
  /\ UiIdle /\ HashIdle /\ DeriveIdle

CallGetValidityPeriodIntersection ==
  /\ validityPeriod' = getValidityPeriodIntersection(vpCredentials)
  /\ UNCHANGED << vpCredentials, uiVars, hashVars, deriveVars, fnVars, hostVars >>

ValidityNext == CallGetValidityPeriodIntersection

SpecValidity == ValidityInit /\ [][ValidityNext]_vars

\* ------------------------------------------------- canonicalizeAndHash
MaxHashQuads == 2

\* The blank-node labels of a statement set.
BlankLabels(S) ==
  {t.value : t \in {x \in UNION {{quad.subject, quad.object, quad.graph} : quad \in S} :
                      x.termType = "BlankNode"}}

\* A statement with its blank nodes renamed by f.
RelabelTerm(t, f) == IF t.termType = "BlankNode" THEN BlankNode(f[t.value]) ELSE t

RelabelQuad(quad, f) ==
  Quad(RelabelTerm(quad.subject, f), quad.predicate, RelabelTerm(quad.object, f),
       RelabelTerm(quad.graph, f))

\* The labels canonicalization issues, as many as there are blank nodes.
CanonicalLabels(n) == {l \in {"c14n0", "c14n1", "c14n2"} :
                         \/ l = "c14n0" /\ n >= 1
                         \/ l = "c14n1" /\ n >= 2
                         \/ l = "c14n2" /\ n >= 3}

\* An N3 Writer in a format without graphs: a line is the triple of a
\* statement.
WriterTriplesOnly(quads) ==
  [i \in 1..Len(quads) |-> Quad(quads[i].subject, quads[i].predicate, quads[i].object, DefaultGraph)]

\* new Writer({format: 'N-Triples'}) after addQuad of every statement: the
\* lines of the text, in the order of the additions. The line mode of the
\* writer writes the graph of a statement when it has one.
WriterNTriples(quads) ==
  [i \in 1..Len(quads) |->
     Quad(quads[i].subject, quads[i].predicate, quads[i].object,
          IF quads[i].graph.value # "" THEN quads[i].graph ELSE DefaultGraph)]

\* A canonicalization that keeps the order and the labels of its input.
CanonizeKeepsInput(lines) == [kind |-> "nquads", lines |-> lines, stamp |-> << >>]

\* canonize(text, {algorithm: 'URDNA2015'}) when it succeeds: the statements
\* of the text with canonical blank-node labels, as sorted lines. Two texts
\* have the same canonical text exactly when their statement sets are
\* isomorphic.
Canonize(lines) ==
  LET S == Range(lines)
      labels == BlankLabels(S)
      Orbit == { {RelabelQuad(quad, f) : quad \in S} :
                 f \in {g \in [labels -> CanonicalLabels(Cardinality(labels))] :
                          \A x, y \in labels : x # y => g[x] # g[y]} }
  IN [kind |-> "nquads", lines |-> SetToSeq(CHOOSE d \in Orbit : TRUE), stamp |-> << >>]

\* Date.now().toString() + Math.random().toString()
Stamp(now, random) == [kind |-> "stamp", lines |-> << >>, stamp |-> << now, random >>]

\* A hasher whose catch block hashes the statements as they were given.
canonicalizeAndHashRetriesInput(quads, canonizeFails, now, random) ==
  IF canonizeFails THEN hashString(WriterNTriples(quads))
  ELSE hashString(Canonize(WriterNTriples(quads)))

\* canonicalizeAndHash(quads). canonizeFails: the writer or canonize throws;
\* the catch block then hashes the clock and a random number.
canonicalizeAndHash(quads, canonizeFails, now, random) ==
  IF canonizeFails THEN hashString(Stamp(now, random))
  ELSE hashString(Canonize(WriterNTriples(quads)))

\* The values Math.random() returns.
Randoms == {1, 2}

\* The statements hashed: one in the default graph and the same in a named
\* graph, and statements on two blank nodes.
HashQuads ==
  { Quad(NamedNode("urn:a"), NamedNode("urn:p"), Literal("1"), DefaultGraph),
    Quad(NamedNode("urn:a"), NamedNode("urn:p"), Literal("1"), NamedNode("urn:g")),
    Quad(BlankNode("b0"), NamedNode("urn:p"), Literal("1"), DefaultGraph),
    Quad(BlankNode("b1"), NamedNode("urn:p"), Literal("1"), DefaultGraph),
    Quad(BlankNode("b0"), NamedNode("urn:p"), BlankNode("b1"), DefaultGraph),
    Quad(BlankNode("b1"), NamedNode("urn:p"), BlankNode("b0"), DefaultGraph) }

\* Every list of at most n distinct elements of a set.
DistinctLists(S, n) ==
  UNION { { seq \in [1..k -> S] : \A i, j \in 1..k : i # j => seq[i] # seq[j] } : k \in 0..n }

HashInit ==
  /\ hashQuadsA \in DistinctLists(HashQuads, MaxHashQuads)
  /\ hashQuadsB \in DistinctLists(HashQuads, MaxHashQuads)
  /\ digestA = NotRun
  /\ digestB = NotRun
  /\ UiIdle /\ VpIdle /\ DeriveIdle

\* canonicalizeAndHash called on both lists.
CallCanonicalizeAndHash ==
  \E failsA, failsB \in BOOLEAN, now \in Clock :
    \E randomA \in IF failsA THEN Randoms ELSE {1}, randomB \in IF failsB THEN Randoms ELSE {1} :
      /\ digestA' = [run |-> TRUE, fallback |-> failsA,
                     digest |-> canonicalizeAndHash(hashQuadsA, failsA, now, randomA)]
      /\ digestB' = [run |-> TRUE, fallback |-> failsB,
                     digest |-> canonicalizeAndHash(hashQuadsB, failsB, now, randomB)]
      /\ UNCHANGED << hashQuadsA, hashQuadsB, uiVars, vpVars, deriveVars, fnVars, hostVars >>

HashNext == CallCanonicalizeAndHash

SpecHash == HashInit /\ [][HashNext]_vars

\* ------------------------------ createDerivedCredentialsFromConstruct
MaxConstructQuads == 2

MaxBindings == 2

\* What bindings.get(variable) returns for a variable the row does not bind.
Undefined == [termType |-> "undefined", value |-> ""]

\* A row of the preview: the terms bound to ?subject and to ?holder.
Bindings(subject, holder) == [subject |-> subject, holder |-> holder]

BindingsGet(bindings, variable) ==
  IF variable = "subject" THEN bindings.subject ELSE bindings.holder

\* A grouping that takes the key of a row from ?holder when the row has no
\* ?subject.
SubjectToQuadsAnyVariable(selected, quads, keys) ==
  LET terms == [i \in 1..Len(selected) |->
                  IF BindingsGet(selected[i], "subject") # Undefined
                  THEN BindingsGet(selected[i], "subject")
                  ELSE BindingsGet(selected[i], "holder")]
      hit == {i \in 1..Len(selected) :
                /\ terms[i] # Undefined
                /\ \E k \in 1..Len(quads) : quads[k].subject.value = terms[i].value
                /\ \A j \in 1..(i - 1) : terms[j].value # terms[i].value}
  IN [k \in 1..Cardinality(hit) |->
        terms[CHOOSE i \in hit : Cardinality({j \in hit : j < i}) = k - 1].value]

\* selectedBindings.forEach(...): the keys of the subjectToQuads map, in the
\* order of their insertion. A row enters the map when it binds ?subject and
\* some statement has a subject with the same value.
RECURSIVE SubjectToQuads(_, _, _)
SubjectToQuads(selected, quads, keys) ==
  IF selected = << >> THEN keys
  ELSE LET subjectTerm == BindingsGet(Head(selected), "subject")
           subjectValue == subjectTerm.value
           relatedQuads == SelectSeq(quads, LAMBDA quad : quad.subject.value = subjectValue)
       IN SubjectToQuads(Tail(selected), quads,
            IF subjectTerm # Undefined /\ Len(relatedQuads) > 0 /\ subjectValue \notin Range(keys)
            THEN Append(keys, subjectValue) ELSE keys)

\* The statement lists the function makes a credential of: every statement
\* when the map is empty, otherwise the value of each key of the map.
DerivationParts(quads, selected) ==
  LET keys == SubjectToQuads(selected, quads, << >>) IN
  IF Len(keys) = 0 THEN << [combined |-> TRUE, subjectValue |-> "", quads |-> quads] >>
  ELSE [k \in 1..Len(keys) |->
          [combined |-> FALSE, subjectValue |-> keys[k],
           quads |-> SelectSeq(quads, LAMBDA quad : quad.subject.value = keys[k])]]

\* A credential whose derivationMetadata has no subject binding and counts
\* the statements instead of the sources.
DerivedCredentialOfUnbound(part, datasetHash, period, sources, now) ==
  [id |-> [prefix |-> "did:example:derived:", hash |-> datasetHash],
   issuer |-> "did:example:derived",
   issuanceDate |-> period.validFrom,
   expirationDate |-> period.validUntil,
   credentialSubject |->
     [id |-> IF part.combined THEN [prefix |-> "did:derived:", hash |-> datasetHash, value |-> ""]
             ELSE [prefix |-> "", hash |-> << >>, value |-> part.subjectValue],
      derivedFrom |-> [i \in 1..Len(sources) |-> sources[i].id],
      constructResult |-> prettyTurtle(Range(part.quads))],
   proof |->
     [created |-> DateString("iso", now),
      proofValue |-> [prefix |-> "mock-derived-proof-", hash |-> datasetHash],
      derivationMetadata |->
        [sourceCredentials |-> Len(part.quads),
         datasetHash |-> datasetHash,
         subjectBinding |-> "",
         derivationTimestamp |-> DateString("iso", now)]]]

\* The credential built in either branch.
DerivedCredentialOf(part, datasetHash, period, sources, now) ==
  [id |-> [prefix |-> "did:example:derived:", hash |-> datasetHash],
   issuer |-> "did:example:derived",
   issuanceDate |-> period.validFrom,
   expirationDate |-> period.validUntil,
   credentialSubject |->
     [id |-> IF part.combined THEN [prefix |-> "did:derived:", hash |-> datasetHash, value |-> ""]
             ELSE [prefix |-> "", hash |-> << >>, value |-> part.subjectValue],
      derivedFrom |-> [i \in 1..Len(sources) |-> sources[i].id],
      constructResult |-> prettyTurtle(Range(part.quads))],
   proof |->
     [created |-> DateString("iso", now),
      proofValue |-> [prefix |-> "mock-derived-proof-", hash |-> datasetHash],
      derivationMetadata |->
        [sourceCredentials |-> Len(sources),
         datasetHash |-> datasetHash,
         subjectBinding |-> part.subjectValue,
         derivationTimestamp |-> DateString("iso", now)]]]

\* The steps of a call that can throw after the validity period is computed:
\* a call of canonicalizeAndHash (the digest primitive rejects, in the try
\* block and again in the catch block) or a call of prettyTurtle. NoThrow:
\* none does.
NoThrow == [step |-> "none", at |-> 0]

ThrowAt(step, k) == [step |-> step, at |-> k]

\* The try block of createDerivedCredentialsFromConstruct(constructQuads,
\* selectedBindings, sourceCredentials): the error that leaves it (NoError
\* when it returns), the credentials pushed so far and the lists hashed so
\* far. failing: the calls of canonicalizeAndHash that fall back, random: what
\* Math.random returns in them, firstThrow: the first step that throws.
CreateDerivedCredentialsTry(quads, selected, sources, failing, random, firstThrow, now) ==
  LET period == getValidityPeriodIntersection(sources)
      parts == DerivationParts(quads, selected)
      datasetHash == [k \in 1..Len(parts) |->
                        canonicalizeAndHash(parts[k].quads, k \in failing, now,
                                            IF k \in failing THEN random[k] ELSE 1)]
      hashed == [k \in 1..Len(parts) |->
                   [quads |-> parts[k].quads, fallback |-> k \in failing, digest |-> datasetHash[k]]]
      pushed == [k \in 1..Len(parts) |->
                   DerivedCredentialOf(parts[k], datasetHash[k], period, sources, now)]
  IN IF period.thrown # NoError THEN
       [thrown |-> period.thrown, value |-> << >>, hashed |-> << >>]
     ELSE IF firstThrow.step = "hash" /\ firstThrow.at \in 1..Len(parts) THEN
       [thrown |-> Error(<<"Digest error">>),
        value |-> SubSeq(pushed, 1, firstThrow.at - 1),
        hashed |-> SubSeq(hashed, 1, firstThrow.at - 1)]
     ELSE IF firstThrow.step = "serialize" /\ firstThrow.at \in 1..Len(parts) THEN
       [thrown |-> Error(<<"Format error">>),
        value |-> SubSeq(pushed, 1, firstThrow.at - 1),
        hashed |-> SubSeq(hashed, 1, firstThrow.at)]
     ELSE [thrown |-> NoError, value |-> pushed, hashed |-> hashed]

\* A catch block that returns the credentials pushed before the error.
CreateDerivedCredentialsCatchKeepsPushed(attempt) ==
  [thrown |-> NoError, value |-> attempt.value]

\* The catch block: whatever was pushed is dropped and a CredentialError with
\* the code CONSTRUCT_DERIVATION_ERROR and the message of the error is thrown.
CreateDerivedCredentialsCatch(attempt) ==
  [thrown |-> CredentialError(<<"Failed to create derived credentials: ">>
                                \o attempt.thrown.message, "CONSTRUCT_DERIVATION_ERROR"),
   value |-> << >>]

\* createDerivedCredentialsFromConstruct(constructQuads, selectedBindings,
\* sourceCredentials): the credentials it returns or the error it throws, the
\* lists it had hashed and the credentials it had pushed.
createDerivedCredentialsFromConstruct(quads, selected, sources, failing, random, firstThrow, now) ==
  LET attempt == CreateDerivedCredentialsTry(quads, selected, sources, failing, random,
                                             firstThrow, now)
      caught == CreateDerivedCredentialsCatch(attempt)
  IN IF attempt.thrown = NoError THEN
       [run |-> TRUE, thrown |-> NoError, value |-> attempt.value, hashed |-> attempt.hashed,
        pushed |-> Len(attempt.value), firstThrow |-> NoThrow]
     ELSE
       [run |-> TRUE, thrown |-> caught.thrown, value |-> caught.value,
        hashed |-> attempt.hashed, pushed |-> Len(attempt.value), firstThrow |-> firstThrow]

\* The constructed statements: about two holders, and one about a blank
\* verification node that names a holder as its object.
ConstructedQuads ==
  { Quad(NamedNode("did:alice"), NamedNode("derived:isAdult"), Literal("true"), DefaultGraph),
    Quad(NamedNode("did:bob"), NamedNode("derived:isAdult"), Literal("true"), DefaultGraph),
    Quad(BlankNode("verification"), NamedNode("derived:subject"), NamedNode("did:alice"),
         DefaultGraph) }

\* The rows: ?subject bound to a holder with statements, to a holder without
\* any, or not bound.
BindingsPool ==
  { Bindings(NamedNode("did:alice"), Undefined),
    Bindings(NamedNode("did:bob"), Undefined),
    Bindings(NamedNode("did:carol"), Undefined),
    Bindings(Undefined, NamedNode("did:alice")) }

\* The source credential lists: none, one with an expiration, one whose
\* issuanceDate does not parse, and two of which one had expired before the
\* other was issued.
SourceLists ==
  { << >>,
    << Credential("urn:source", DateString("date", 2), DateString("iso", 5)) >>,
    << Credential("urn:source", DateString("invalid", 0), NoDate) >>,
    << Credential("urn:source", DateString("iso", 1), DateString("iso", 2)),
       Credential("urn:later", DateString("date", 3), NoDate) >> }

\* The inputs of a construction: statements and rows of the pools above, or
\* statements about blank nodes with rows whose ?subject is a blank node.
DeriveInit ==
  /\ LET blankNodes == { BlankNode("verification"), BlankNode("other") }
         blankQuads == { Quad(node, NamedNode("derived:subject"), NamedNode("did:alice"),
                              DefaultGraph) : node \in blankNodes }
         blankBindings == { Bindings(node, Undefined) : node \in blankNodes }
     IN \/ /\ constructQuads \in DistinctLists(ConstructedQuads, MaxConstructQuads)
           /\ selectedBindings \in UNION { [1..k -> BindingsPool] : k \in 0..MaxBindings }
        \/ /\ constructQuads \in DistinctLists(blankQuads, MaxConstructQuads)
           /\ selectedBindings \in UNION { [1..k -> blankBindings] : k \in 0..MaxBindings }
  /\ sourceCredentials \in SourceLists
  /\ derivedCredentials = NotRun
  /\ UiIdle /\ VpIdle /\ HashIdle

CallCreateDerivedCredentialsFromConstruct ==
  \E now \in Clock :
    LET n == IF getValidityPeriodIntersection(sourceCredentials).thrown # NoError THEN 0
             ELSE Len(DerivationParts(constructQuads, selectedBindings))
    IN
    \E firstThrow \in {NoThrow} \cup {ThrowAt(step, k) : step \in {"hash", "serialize"}, k \in 1..n} :
      LET ran == IF firstThrow = NoThrow THEN n
                 ELSE IF firstThrow.step = "hash" THEN firstThrow.at - 1 ELSE firstThrow.at
      IN
      \E failing \in SUBSET (1..ran) :
        \E random \in [failing -> Randoms] :
          /\ derivedCredentials' =
               createDerivedCredentialsFromConstruct(constructQuads, selectedBindings,
                 sourceCredentials, failing, random, firstThrow, now)
          /\ UNCHANGED << constructQuads, selectedBindings, sourceCredentials,
                          uiVars, vpVars, hashVars, fnVars, hostVars >>

DeriveNext == CallCreateDerivedCredentialsFromConstruct

SpecDerive == DeriveInit /\ [][DeriveNext]_vars

\* -------------------------- the exported functions on the caller's objects
\* The caller holds a credential list for the query functions and the inputs
\* of a construction, and calls the functions in any order.
SourcesInit ==
  /\ credentials \in CredentialLists({CredAlice, CredProt}, MaxCreds)
  /\ query = DefaultQuery
  /\ queryResults = << >>
  /\ isConstructQuery = FALSE
  /\ error = NullError
  /\ rdfData = NotLoaded
  /\ rdfStore = LoadRDFStore(<< >>)
  /\ availableSampleQueries = << >>
  /\ calls = << >>
  /\ derived = NoDerived
  /\ selectedResults = << >>
  /\ constructResult = NoConstructResult
  /\ constructed = NotRun
  /\ turtle = NotRun
  /\ requests = << >>
  /\ extracted = NotRun
  /\ isExecuting = FALSE /\ inFlight = << >> /\ localStorage = << >> /\ added = << >>
  /\ apiKeys = {} /\ reply = NotRun
  /\ constructQuads = << Quad(NamedNode("did:alice"), NamedNode("derived:isAdult"),
                              Literal("true"), DefaultGraph) >>
  /\ selectedBindings \in {<< >>, << Bindings(NamedNode("did:alice"), Undefined) >>}
  /\ sourceCredentials \in SourceLists
  /\ derivedCredentials = NotRun
  /\ VpIdle /\ HashIdle

SpecSources ==
  SourcesInit /\ [][\/ CallExecuteSPARQLQuery
                    \/ CallCreateDerivedCredential
                    \/ CallConvertToTurtle
                    \/ CallCreateDerivedCredentialsFromConstruct]_vars

\* ------------------------------------------------ the Construct Extractor
MaxTemplate == 2

\* forEachTermsNested(quad, cb) of rdf-terms: the terms cb is called with, in
\* order: subject, predicate, object, graph, a quoted statement being walked
\* in place of itself.
RECURSIVE forEachTermsNested(_)
forEachTermsNested(quad) ==
  LET Walk(term) == IF term.termType = "Quad" THEN forEachTermsNested(term) ELSE << term >>
  IN Walk(quad.subject) \o Walk(quad.predicate) \o Walk(quad.object) \o Walk(quad.graph)

\* A walk that keeps every occurrence of a variable.
RECURSIVE TemplateVariablesAll(_, _)
TemplateVariablesAll(terms, variables) ==
  IF terms = << >> THEN variables
  ELSE TemplateVariablesAll(Tail(terms),
         IF Head(terms).termType = "Variable" THEN Append(variables, Head(terms))
         ELSE variables)

\* The callback of executeQuery over the terms walked: a variable is pushed
\* when its name is not yet in varSet.
RECURSIVE TemplateVariables(_, _)
TemplateVariables(terms, variables) ==
  IF terms = << >> THEN variables
  ELSE TemplateVariables(Tail(terms),
         IF /\ Head(terms).termType = "Variable"
            /\ Head(terms).value \notin {variables[i].value : i \in 1..Len(variables)}
         THEN Append(variables, Head(terms))
         ELSE variables)

\* The loop of executeQuery over algebra.template, and the projection it
\* builds with factory.createProject(algebra.input, variables).
RECURSIVE ConstructExtractor(_, _, _)
ConstructExtractor(template, input, variables) ==
  IF template = << >> THEN
    [run |-> TRUE,
     selectQuery |-> [type |-> "project", input |-> input, variables |-> variables],
     queryVariables |-> [i \in 1..Len(variables) |-> variables[i].value]]
  ELSE ConstructExtractor(Tail(template), input,
                          TemplateVariables(forEachTermsNested(Head(template)), variables))

\* Template statements: with a variable used twice, with variables in
\* predicate and graph position, with a quoted statement, without variables.
TemplatePool ==
  LET V(name) == [termType |-> "Variable", value |-> name]
      Type == NamedNode("rdf:type")
  IN { Quad(V("subject"), Type, NamedNode("citizenship:Adult"), DefaultGraph),
       Quad(V("subject"), NamedNode("citizenship:isAdult"), V("isAdult"), DefaultGraph),
       Quad(V("isAdult"), V("p"), V("subject"), V("g")),
       Quad(V("x"), NamedNode("derived:says"),
            [termType |-> "Quad", subject |-> V("subject"), predicate |-> V("p"),
             object |-> V("x"), graph |-> DefaultGraph], DefaultGraph),
       Quad(NamedNode("urn:a"), Type, NamedNode("urn:b"), DefaultGraph) }

\* The CONSTRUCT algebras the extraction is run on: a template and the
\* input, the algebra of the WHERE clause.
ExtractInit ==
  /\ extracted \in
       { [run |-> FALSE,
          algebra |-> [type |-> "construct", template |-> template,
                       input |-> [type |-> "bgp", patterns |-> patterns]]] :
           template \in UNION { [1..k -> TemplatePool] : k \in 0..MaxTemplate },
           patterns \in {"?subject a ?type", "?subject ?p ?x", "?x ?p ?g"} }
  /\ credentials = << >>
  /\ query = DefaultQuery
  /\ queryResults = << >>
  /\ isConstructQuery = FALSE
  /\ error = NullError
  /\ rdfData = NotLoaded
  /\ rdfStore = LoadRDFStore(<< >>)
  /\ availableSampleQueries = << >>
  /\ calls = << >>
  /\ derived = NoDerived
  /\ selectedResults = << >>
  /\ constructResult = NoConstructResult
  /\ constructed = NotRun
  /\ turtle = NotRun
  /\ requests = << >>
  /\ isExecuting = FALSE /\ inFlight = << >> /\ localStorage = << >> /\ added = << >>
  /\ apiKeys = {} /\ reply = NotRun
  /\ VpIdle /\ HashIdle /\ DeriveIdle

\* The extraction of executeQuery run on the algebra of a CONSTRUCT query.
CallConstructExtractor ==
  /\ ~extracted.run
  /\ LET algebra == extracted.algebra
     IN extracted' = ConstructExtractor(algebra.template, algebra.input, << >>)
                       @@ [algebra |-> algebra]
  /\ UNCHANGED << credentials, query, queryResults, isConstructQuery, error >>
  /\ UNCHANGED << rdfData, rdfStore, availableSampleQueries, calls, derived >>
  /\ UNCHANGED << selectedResults, constructResult, constructed, turtle, requests >>
  /\ UNCHANGED << vpVars, hashVars, deriveVars, hostVars >>

SpecExtract == ExtractInit /\ [][CallConstructExtractor]_vars

\* ------------------------------------------------- extractWhereClause
MaxPrefixes == 2

\* CONSTRUCT query texts with a WHERE clause: the PREFIX declarations of the
\* prologue, each a label (its characters) and an IRI, and a WHERE body that
\* uses one prefixed name of every declared prefix.  Labels follow the SPARQL
\* grammar (PNAME_NS): empty, word characters, or with '-' inside.
ConstructTexts ==
  LET Labels == { << >>, << "a" >>, << "b", "_" >>, << "a", "-", "b" >> }
      Declarations == [label : Labels, iri : {"http://a/", "http://b/"}]
  IN { [prefixes |-> decls,
        where |-> [i \in 1..Len(decls) |-> [termType |-> "PrefixedName",
                                            label |-> decls[i].label, local |-> "p"]]] :
         decls \in UNION { [1..k -> Declarations] : k \in 0..MaxPrefixes } }

\* extractWhereClause(constructQuery).  The text returned is kept as its
\* parts: the declarations joined in front and the body between the braces.
\* translate and toSparql are sparqlalgebrajs: toSparql prints the input
\* algebra with every name expanded to its IRI; algebraThrows says that one
\* of them throws, which sends the function to its regex fallback, where
\* the body is the text of the query.  /PREFIX\s+\w+:\s*<[^>]+>\s*/gi matches
\* a declaration when its label is one or more word characters.
extractWhereClause(constructQuery, algebraThrows) ==
  LET WordChars == {"a", "b", "_"}
      Matches(decl) == /\ Len(decl.label) >= 1
                       /\ \A i \in 1..Len(decl.label) : decl.label[i] \in WordChars
      prefixMatches == SelectSeq(constructQuery.prefixes, Matches)
      Resolve(label) ==
        LET i == CHOOSE j \in 1..Len(constructQuery.prefixes) :
                   /\ constructQuery.prefixes[j].label = label
                   /\ \A k \in (j + 1)..Len(constructQuery.prefixes) :
                        constructQuery.prefixes[k].label # label
        IN constructQuery.prefixes[i].iri
      whereClause == [i \in 1..Len(constructQuery.where) |->
                        [termType |-> "NamedNode",
                         value |-> << Resolve(constructQuery.where[i].label),
                                      constructQuery.where[i].local >>]]
  IN [run |-> TRUE, constructQuery |-> constructQuery,
      prefixes |-> prefixMatches,
      fallback |-> algebraThrows,
      body |-> IF algebraThrows THEN constructQuery.where ELSE whereClause]

WhereInit ==
  /\ extracted \in { [run |-> FALSE, constructQuery |-> q] : q \in ConstructTexts }
  /\ credentials = << >>
  /\ query = DefaultQuery
  /\ queryResults = << >>
  /\ isConstructQuery = FALSE
  /\ error = NullError
  /\ rdfData = NotLoaded
  /\ rdfStore = LoadRDFStore(<< >>)
  /\ availableSampleQueries = << >>
  /\ calls = << >>
  /\ derived = NoDerived
  /\ selectedResults = << >>
  /\ constructResult = NoConstructResult
  /\ constructed = NotRun
  /\ turtle = NotRun
  /\ requests = << >>
  /\ isExecuting = FALSE /\ inFlight = << >> /\ localStorage = << >> /\ added = << >>
  /\ apiKeys = {} /\ reply = NotRun
  /\ VpIdle /\ HashIdle /\ DeriveIdle

CallExtractWhereClause ==
  /\ ~extracted.run
  /\ \E algebraThrows \in BOOLEAN :
       extracted' = extractWhereClause(extracted.constructQuery, algebraThrows)
  /\ UNCHANGED << credentials, query, queryResults, isConstructQuery, error >>
  /\ UNCHANGED << rdfData, rdfStore, availableSampleQueries, calls, derived >>
  /\ UNCHANGED << selectedResults, constructResult, constructed, turtle, requests >>
  /\ UNCHANGED << vpVars, hashVars, deriveVars, hostVars >>

SpecWhere == WhereInit /\ [][CallExtractWhereClause]_vars

\* -------------------------------------------------- the provider chain
\* validateLLMConfiguration(): the first provider, in the order OpenRouter,
\* Groq, Together AI, Hugging Face, OpenAI, Anthropic, that has a key in the
\* environment (keys: the positions in that order that have one).
validateLLMConfiguration(keys) ==
  LET names == << "OpenRouter (Free)", "Groq (Free)", "Together AI (Free)",
                  "Hugging Face (Free)", "OpenAI (Paid)", "Anthropic (Paid)" >>
      first == CHOOSE i \in keys : \A j \in keys : i <= j
  IN IF keys = {} THEN [isConfigured |-> FALSE, provider |-> "undefined"]
     ELSE [isConfigured |-> TRUE, provider |-> names[first]]

\* A build with any set of API keys, and a wallet of one credential.
ChatInit ==
  /\ apiKeys \in SUBSET (1..6)
  /\ reply = NotRun
  /\ credentials = << CredAlice >>
  /\ query = DefaultQuery
  /\ queryResults = << >>
  /\ isConstructQuery = FALSE
  /\ error = NullError
  /\ rdfData = LoadRDF(credentials, FALSE)
  /\ rdfStore = LoadRDFStore(credentials)
  /\ availableSampleQueries = << >>
  /\ calls = << >>
  /\ derived = NoDerived
  /\ selectedResults = << >>
  /\ constructResult = NoConstructResult
  /\ constructed = NotRun
  /\ turtle = NotRun
  /\ requests = << >>
  /\ extracted = NotRun
  /\ isExecuting = FALSE /\ inFlight = << >> /\ localStorage = << >> /\ added = << >>
  /\ VpIdle /\ HashIdle /\ DeriveIdle

\* callLLMForSPARQLAssistance called in that build: the requests it sends
\* and what it returns, the result of the first provider that answers
\* without an error or, when none does, the fallback content with an error
\* text. A provider whose key is set can fail or answer (answering).
CallLLMForSPARQLAssistance ==
  \E answering \in (apiKeys \cap (1..Len(Providers))) \cup {0} :
    /\ requests' = callLLMForSPARQLAssistance(1, "How do I list the names?", credentials,
                                               rdfData, apiKeys, answering)
    /\ reply' = IF answering = 0
                THEN [run |-> TRUE, content |-> "generateFallbackResponse",
                      error |-> <<"All LLM providers failed. Please check your API keys or try again later.">>]
                ELSE [run |-> TRUE, content |-> Providers[answering], error |-> << >>]
    /\ UNCHANGED << uiVars, vpVars, hashVars, deriveVars, turtle, extracted >>
    /\ UNCHANGED << isExecuting, inFlight, localStorage, added, apiKeys >>

SpecChat == ChatInit /\ [][CallLLMForSPARQLAssistance]_vars

\* ------------------------------------------------- the wallet: uploads
MaxFiles == 2

\* Home after its mount effect has read localStorage: the credential list
\* is the list stored. JSON.stringify and JSON.parse keep the fields of the
\* credentials of the model (an undefined expirationDate is dropped and
\* read back as undefined), so the item is kept as the list it encodes.
WalletInit ==
  /\ credentials \in {<< >>, << CredAlice >>}
  /\ localStorage = credentials
  /\ added = << >>
  /\ inFlight = << >>
  /\ isExecuting = FALSE
  /\ apiKeys = {} /\ reply = NotRun
  /\ query = DefaultQuery
  /\ queryResults = << >>
  /\ isConstructQuery = FALSE
  /\ error = NullError
  /\ rdfData = NotLoaded
  /\ rdfStore = LoadRDFStore(<< >>)
  /\ availableSampleQueries = << >>
  /\ calls = << >>
  /\ derived = NoDerived
  /\ selectedResults = << >>
  /\ constructResult = NoConstructResult
  /\ constructed = NotRun
  /\ turtle = NotRun
  /\ requests = << >>
  /\ extracted = NotRun
  /\ VpIdle /\ HashIdle /\ DeriveIdle

\* CredentialUpload.handleDrop and handleFileSelect up to their first await:
\* the loop over the files starts. The handler, processFile and the
\* onCredentialAdded it calls belong to the render in which the event
\* arrived, so the handleAddCredential they reach holds the credential list
\* of that render. A file holds a credential, or a text that does not parse.
handleDrop ==
  \E files \in UNION { [1..k -> [parses : BOOLEAN, credential : {CredBob, CredProt, CredBad}]] :
                         k \in 1..MaxFiles } :
    /\ inFlight = << >>
    /\ added = << >>
    /\ inFlight' = << [op |-> "handleDrop", credentials |-> credentials, files |-> files] >>
    /\ UNCHANGED << uiVars, vpVars, hashVars, deriveVars, fnVars >>
    /\ UNCHANGED << isExecuting, localStorage, added, apiKeys, reply >>

\* One turn of the loop: processFile(file). When parseCredentialFile
\* resolves, onCredentialAdded(credential) runs Home.handleAddCredential and
\* saveCredentials of the render captured; when it rejects, the upload
\* shows an error and the list is left alone.
processFile ==
  \E i \in 1..Len(inFlight) :
    LET run == inFlight[i]
        file == Head(run.files)
        rest == IF Len(run.files) = 1
                THEN SubSeq(inFlight, 1, i - 1) \o SubSeq(inFlight, i + 1, Len(inFlight))
                ELSE [inFlight EXCEPT ![i].files = Tail(run.files)]
        newCredentials == Append(run.credentials, file.credential)
    IN /\ run.op = "handleDrop"
       /\ inFlight' = rest
       /\ IF ~file.parses
          THEN UNCHANGED << credentials, localStorage, added >>
          ELSE /\ credentials' = newCredentials
               /\ localStorage' = newCredentials
               /\ added' = Append(added, file.credential)
       /\ UNCHANGED << query, queryResults, isConstructQuery, error, rdfData,
                       availableSampleQueries, calls, rdfStore, derived,
                       selectedResults, constructResult, constructed >>
       /\ UNCHANGED << vpVars, hashVars, deriveVars, fnVars, isExecuting, apiKeys, reply >>

SpecWallet == WalletInit /\ [][handleDrop \/ processFile]_vars

\* ------------------------------- query interface: selection and construction
\* toggleResultSelection(index): the checkbox of a row, rendered for every
\* row while isConstructQuery holds.
toggleResultSelection ==
  \E index \in 1..Len(queryResults) :
    /\ isConstructQuery
    /\ selectedResults' = IF index \in Range(selectedResults)
                           THEN SelectSeq(selectedResults, LAMBDA i : i # index)
                           ELSE Append(selectedResults, index)
    /\ calls' = << >>
    /\ derived' = NoDerived
    /\ constructed' = NotRun
    /\ UNCHANGED << credentials, query, queryResults, isConstructQuery, error, rdfData,
                    availableSampleQueries, rdfStore, constructResult >>
    /\ UNCHANGED << vpVars, hashVars, deriveVars, fnVars, hostVars >>

\* toggleSelectAll: the checkbox of the table header.
toggleSelectAll ==
  /\ isConstructQuery
  /\ Len(queryResults) > 0
  /\ selectedResults' = IF Len(selectedResults) = Len(queryResults) THEN << >>
                         ELSE [index \in 1..Len(queryResults) |-> index]
  /\ calls' = << >>
  /\ derived' = NoDerived
  /\ constructed' = NotRun
  /\ UNCHANGED << credentials, query, queryResults, isConstructQuery, error, rdfData,
                  availableSampleQueries, rdfStore, constructResult >>
  /\ UNCHANGED << vpVars, hashVars, deriveVars, fnVars, hostVars >>

\* executeConstruct with every row of the preview handed over.
executeConstructAllRows ==
  \E constructThrows \in BOOLEAN :
    /\ isConstructQuery /\ Len(queryResults) > 0
    /\ constructed' = [run |-> TRUE, query |-> query, selectedBindings |-> queryResults,
                       credentials |-> credentials]
    /\ IF constructThrows
       THEN error' = <<"CONSTRUCT execution failed">> /\ UNCHANGED constructResult
       ELSE error' = NullError
            /\ constructResult' = [kind |-> "constructed", query |-> query,
                                   selectedBindings |-> queryResults]
    /\ calls' = << >>
    /\ derived' = NoDerived
    /\ UNCHANGED << credentials, query, queryResults, isConstructQuery, rdfData,
                    availableSampleQueries, rdfStore, selectedResults >>
    /\ UNCHANGED << vpVars, hashVars, deriveVars, fnVars, hostVars >>

\* executeConstruct (the Execute CONSTRUCT button, rendered while
\* isConstructQuery holds and there are rows, disabled while no row is
\* selected). executeConstructQuery is called with the editor's text, the
\* selected rows and the credentials; it returns a text or throws
\* (constructThrows).
executeConstruct ==
  \E constructThrows \in BOOLEAN :
    /\ isConstructQuery /\ Len(queryResults) > 0 /\ Len(selectedResults) > 0
    /\ IF ~isConstructQuery \/ Len(selectedResults) = 0 THEN
         /\ error' = <<"Please select at least one result to construct RDF">>
         /\ constructed' = NotRun
         /\ UNCHANGED constructResult
       ELSE
         LET rows ==
               [k \in 1..Len(selectedResults) |->
                  IF selectedResults[k] \in 1..Len(queryResults)
                  THEN queryResults[selectedResults[k]] ELSE Undefined]
         IN /\ constructed' = [run |-> TRUE, query |-> query,
                               selectedBindings |-> rows,
                               credentials |-> credentials]
            /\ IF constructThrows
               THEN error' = <<"CONSTRUCT execution failed">> /\ UNCHANGED constructResult
               ELSE error' = NullError
                    /\ constructResult' = [kind |-> "constructed", query |-> query,
                                           selectedBindings |-> rows]
    /\ calls' = << >>
    /\ derived' = NoDerived
    /\ UNCHANGED << credentials, query, queryResults, isConstructQuery, rdfData,
                    availableSampleQueries, rdfStore, selectedResults >>
    /\ UNCHANGED << vpVars, hashVars, deriveVars, fnVars, hostVars >>

\* The query interface over a wallet of two credentials that convert.
ConstructInit ==
  /\ credentials = << CredAlice, Credential("urn:family", DateString("iso", 1), NoDate) >>
  /\ query = DefaultQuery
  /\ queryResults = << >>
  /\ isConstructQuery = FALSE
  /\ error = NullError
  /\ rdfData = LoadRDF(credentials, FALSE)
  /\ rdfStore = LoadRDFStore(credentials)
  /\ availableSampleQueries = filterSampleQueries(credentials, {})
  /\ calls = << >>
  /\ derived = NoDerived
  /\ selectedResults = << >>
  /\ constructResult = NoConstructResult
  /\ constructed = NotRun
  /\ turtle = NotRun
  /\ requests = << >>
  /\ extracted = NotRun
  /\ isExecuting = FALSE /\ inFlight = << >> /\ localStorage = << >> /\ added = << >>
  /\ apiKeys = {} /\ reply = NotRun
  /\ VpIdle /\ HashIdle /\ DeriveIdle

ConstructNext ==
  \/ SetQuery
  \/ loadSampleQuery
  \/ applySuggestedQuery
  \/ executeQuery
  \/ toggleResultSelection
  \/ toggleSelectAll
  \/ executeConstruct

SpecConstruct == ConstructInit /\ [][ConstructNext]_vars

\* ------------------------ query interface: the operations, step by step
\* The asynchronous handlers of the component in two steps each: the part
\* that runs in the event, up to the first await, and the part that runs
\* when the awaited promise settles. React renders between the two, so the
\* buttons are enabled or disabled by the state the first step left.

\* executeQuery up to its await (the Execute Query button, disabled while
\* isExecuting or while the text is blank). A text that does not parse, or of
\* another form, goes through catch and finally in the same event.
executeQueryStart ==
  /\ ~isExecuting /\ ~IsBlank(query)
  /\ IF Len(credentials) = 0 THEN
       /\ error' = <<"No credentials available to query">>
       /\ UNCHANGED << isConstructQuery, constructResult, isExecuting, inFlight >>
     ELSE
       LET algebra == translate(query) IN
       IF algebra.threw \/ algebra.type \notin {"construct", "project"} THEN
         /\ error' = IF algebra.threw THEN <<"Parse error">>
                     ELSE <<"Only SELECT and CONSTRUCT queries are supported">>
         /\ isConstructQuery' = FALSE
         /\ constructResult' = NoConstructResult
         /\ UNCHANGED << isExecuting, inFlight >>
       ELSE
         /\ isExecuting' = TRUE
         /\ error' = NullError
         /\ isConstructQuery' = (algebra.type = "construct")
         /\ inFlight' = Append(inFlight,
              [op |-> "executeQuery", type |-> algebra.type,
               query |-> IF algebra.type = "construct" THEN ExtractedSelect(query) ELSE query,
               credentials |-> credentials])
         /\ UNCHANGED constructResult
  /\ UNCHANGED << credentials, query, queryResults, rdfData, availableSampleQueries, calls,
                  rdfStore, derived, selectedResults, constructed >>
  /\ UNCHANGED << vpVars, hashVars, deriveVars, fnVars, localStorage, added, apiKeys, reply >>

\* executeQuery after its await: executeSPARQLQuery has returned the rows or
\* thrown; then the finally block.
executeQuerySettle ==
  \E i \in 1..Len(inFlight), engineThrows \in BOOLEAN :
    LET run == inFlight[i]
        results == executeSPARQLQuery(run.query, run.credentials, engineThrows)
    IN /\ run.op = "executeQuery"
       /\ inFlight' = SubSeq(inFlight, 1, i - 1) \o SubSeq(inFlight, i + 1, Len(inFlight))
       /\ isExecuting' = FALSE
       /\ IF results.thrown # NoError THEN
            /\ error' = IF run.type = "construct"
                        THEN <<"Failed to get SELECT results for CONSTRUCT query: ">>
                               \o results.thrown.message
                        ELSE results.thrown.message
            /\ isConstructQuery' = FALSE
            /\ constructResult' = NoConstructResult
            /\ UNCHANGED << queryResults, selectedResults >>
          ELSE
            /\ queryResults' = results.value
            /\ selectedResults' = IF run.type = "construct" THEN << >> ELSE selectedResults
            /\ constructResult' = NoConstructResult
            /\ UNCHANGED << error, isConstructQuery >>
       /\ UNCHANGED << credentials, query, rdfData, availableSampleQueries, calls, rdfStore,
                       derived, constructed >>
       /\ UNCHANGED << vpVars, hashVars, deriveVars, fnVars, localStorage, added, apiKeys, reply >>

\* executeConstruct that starts whatever isExecuting says.
executeConstructStartWhileExecuting ==
  /\ isConstructQuery /\ Len(queryResults) > 0
  /\ Len(selectedResults) > 0
  /\ isExecuting' = TRUE
  /\ error' = NullError
  /\ inFlight' = Append(inFlight,
       [op |-> "executeConstruct", query |-> query, credentials |-> credentials,
        selectedBindings |-> [k \in 1..Len(selectedResults) |->
                                IF selectedResults[k] \in 1..Len(queryResults)
                                THEN queryResults[selectedResults[k]] ELSE Undefined]])
  /\ UNCHANGED << credentials, query, queryResults, isConstructQuery, rdfData,
                  availableSampleQueries, calls, rdfStore, derived, selectedResults,
                  constructResult, constructed >>
  /\ UNCHANGED << vpVars, hashVars, deriveVars, fnVars, localStorage, added, apiKeys, reply >>

\* executeConstruct up to its await (the Execute CONSTRUCT button: rendered
\* while isConstructQuery holds and there are rows, disabled while
\* isExecuting or while no row is selected).
executeConstructStart ==
  /\ isConstructQuery /\ Len(queryResults) > 0
  /\ ~isExecuting /\ Len(selectedResults) > 0
  /\ isExecuting' = TRUE
  /\ error' = NullError
  /\ inFlight' = Append(inFlight,
       [op |-> "executeConstruct", query |-> query, credentials |-> credentials,
        selectedBindings |-> [k \in 1..Len(selectedResults) |->
                                IF selectedResults[k] \in 1..Len(queryResults)
                                THEN queryResults[selectedResults[k]] ELSE Undefined]])
  /\ UNCHANGED << credentials, query, queryResults, isConstructQuery, rdfData,
                  availableSampleQueries, calls, rdfStore, derived, selectedResults,
                  constructResult, constructed >>
  /\ UNCHANGED << vpVars, hashVars, deriveVars, fnVars, localStorage, added, apiKeys, reply >>

\* executeConstruct after its await: executeConstructQuery has returned a
\* text or thrown (constructThrows); then the finally block.
executeConstructSettle ==
  \E i \in 1..Len(inFlight), constructThrows \in BOOLEAN :
    LET run == inFlight[i]
    IN /\ run.op = "executeConstruct"
       /\ inFlight' = SubSeq(inFlight, 1, i - 1) \o SubSeq(inFlight, i + 1, Len(inFlight))
       /\ isExecuting' = FALSE
       /\ IF constructThrows
          THEN error' = <<"CONSTRUCT execution failed">> /\ UNCHANGED constructResult
          ELSE /\ constructResult' = [kind |-> "constructed", query |-> run.query,
                                      selectedBindings |-> run.selectedBindings]
               /\ UNCHANGED error
       /\ UNCHANGED << credentials, query, queryResults, isConstructQuery, rdfData,
                       availableSampleQueries, calls, rdfStore, derived, selectedResults,
                       constructed >>
       /\ UNCHANGED << vpVars, hashVars, deriveVars, fnVars, localStorage, added, apiKeys, reply >>

\* createDerived up to its await (the form filled in; its button is
\* rendered while there are rows and disabled while isExecuting). The
\* onDerivedCredentialCreated it will call is Home.handleAddCredential of
\* this render, which holds this render's credential list.
createDerivedStart ==
  /\ Len(queryResults) > 0
  /\ ~isExecuting
  /\ Len(credentials) < MaxCreds
  /\ isExecuting' = TRUE
  /\ error' = NullError
  /\ inFlight' = Append(inFlight,
       [op |-> "createDerived", query |-> query, credentials |-> credentials])
  /\ UNCHANGED << credentials, query, queryResults, isConstructQuery, rdfData,
                  availableSampleQueries, calls, rdfStore, derived, selectedResults,
                  constructResult, constructed >>
  /\ UNCHANGED << vpVars, hashVars, deriveVars, fnVars, localStorage, added, apiKeys, reply >>

\* createDerived after its await: createDerivedCredential has returned or
\* thrown; then the finally block. A credential returned goes to
\* handleAddCredential and saveCredentials, and the new credential list
\* starts the two effects of the component.
createDerivedSettle ==
  \E i \in 1..Len(inFlight), engineThrows \in BOOLEAN, now \in Clock :
    /\ inFlight[i].op = "createDerived"
    /\ isExecuting' = FALSE
    /\ \E r \in { createDerivedCredential(inFlight[i].query, inFlight[i].credentials,
                                           DerivedCredentialForm, now, engineThrows) },
          others \in { SubSeq(inFlight, 1, i - 1) \o SubSeq(inFlight, i + 1, Len(inFlight)) } :
         IF r.thrown # NoError THEN
           /\ error' = r.thrown.message
           /\ inFlight' = others
           /\ UNCHANGED << credentials, localStorage, added >>
         ELSE
           \E credential \in { Credential(r.value.id, r.value.issuanceDate,
                                           r.value.expirationDate) } :
             /\ credentials' = Append(inFlight[i].credentials, credential)
             /\ localStorage' = credentials'
             /\ added' = Append(added, credential)
             /\ inFlight' = others \o << [op |-> "loadRDF", credentials |-> credentials'],
                                         [op |-> "filterSampleQueries",
                                          credentials |-> credentials'] >>
             /\ UNCHANGED error
    /\ UNCHANGED << query, queryResults, isConstructQuery, rdfData, availableSampleQueries,
                    calls, rdfStore, derived, selectedResults, constructResult, constructed >>
    /\ UNCHANGED << vpVars, hashVars, deriveVars, fnVars, apiKeys, reply >>

\* The loadRDF effect when its conversions and prettyTurtle have settled:
\* setRdfData with the text of the credential list the effect ran for.
loadRDFSettle ==
  \E i \in 1..Len(inFlight), prettyThrows \in BOOLEAN :
    /\ inFlight[i].op = "loadRDF"
    /\ inFlight' = SubSeq(inFlight, 1, i - 1) \o SubSeq(inFlight, i + 1, Len(inFlight))
    /\ rdfData' = LoadRDF(inFlight[i].credentials, prettyThrows)
    /\ UNCHANGED << credentials, query, queryResults, isConstructQuery, error,
                    availableSampleQueries, calls, rdfStore, derived, selectedResults,
                    constructResult, constructed >>
    /\ UNCHANGED << vpVars, hashVars, deriveVars, fnVars, isExecuting, localStorage, added,
                    apiKeys, reply >>

\* The filterSampleQueries effect when its last query has settled:
\* setAvailableSampleQueries with the samples valid for the credential list
\* the effect ran for.
filterSampleQueriesSettle ==
  \E i \in 1..Len(inFlight), failing \in SUBSET SelectSamples :
    /\ inFlight[i].op = "filterSampleQueries"
    /\ inFlight' = SubSeq(inFlight, 1, i - 1) \o SubSeq(inFlight, i + 1, Len(inFlight))
    /\ availableSampleQueries' = filterSampleQueries(inFlight[i].credentials, failing)
    /\ UNCHANGED << credentials, query, queryResults, isConstructQuery, error, rdfData,
                    calls, rdfStore, derived, selectedResults, constructResult, constructed >>
    /\ UNCHANGED << vpVars, hashVars, deriveVars, fnVars, isExecuting, localStorage, added,
                    apiKeys, reply >>

\* The component just mounted over a wallet of one credential: its two
\* effects have started for that list.
ExecInit ==
  /\ credentials = << Credential("urn:family", DateString("iso", 1), NoDate) >>
  /\ localStorage = credentials
  /\ inFlight = << [op |-> "loadRDF", credentials |-> credentials],
                   [op |-> "filterSampleQueries", credentials |-> credentials] >>
  /\ isExecuting = FALSE
  /\ added = << >>
  /\ apiKeys = {} /\ reply = NotRun
  /\ query = DefaultQuery
  /\ queryResults = << >>
  /\ isConstructQuery = FALSE
  /\ error = NullError
  /\ rdfData = NotLoaded
  /\ rdfStore = LoadRDFStore(<< >>)
  /\ availableSampleQueries = << >>
  /\ calls = << >>
  /\ derived = NoDerived
  /\ selectedResults = << >>
  /\ constructResult = NoConstructResult
  /\ constructed = NotRun
  /\ turtle = NotRun
  /\ requests = << >>
  /\ extracted = NotRun
  /\ VpIdle /\ HashIdle /\ DeriveIdle

SpecExec ==
  ExecInit /\ [][\/ loadSampleQuery
                 \/ toggleResultSelection
                 \/ executeQueryStart
                 \/ executeQuerySettle
                 \/ executeConstructStart
                 \/ executeConstructSettle
                 \/ createDerivedStart
                 \/ createDerivedSettle
                 \/ loadRDFSettle
                 \/ filterSampleQueriesSettle]_vars

\* ---------------------------------------------------------- properties
\* C1: executeSPARQLQuery rejects every text that parses to an algebra type
\* other than "project" and "construct" (ASK, DESCRIBE, INSERT, DELETE) with
\* a CredentialError whose code is UNSUPPORTED_QUERY_TYPE; the error reaches
\* the caller with that code, not wrapped as SPARQL_ERROR, and the engine has
\* not been invoked.
C1_UnsupportedTypeRejected ==
  \A i \in 1..Len(calls) :
    LET algebra == translate(calls[i].sparqlQuery) IN
    (~algebra.threw /\ algebra.type \notin {"project", "construct"}) =>
      /\ calls[i].outcome.thrown.name = "CredentialError"
      /\ calls[i].outcome.thrown.code = "UNSUPPORTED_QUERY_TYPE"
      /\ calls[i].outcome.engine = << >>

\* An INSERT text has been rejected on a list with a convertible credential.
C1_Witness ==
  \E i \in 1..Len(calls) :
    /\ translate(calls[i].sparqlQuery).type = "deleteinsert"
    /\ CredAlice \in Range(calls[i].credentials)
    /\ calls[i].outcome.thrown.code = "UNSUPPORTED_QUERY_TYPE"

\* C2: in the query interface, whatever the sequence of steps, the engine is
\* invoked only with a text whose algebra type is "project" (a SELECT text or
\* the SELECT text regenerated from a CONSTRUCT); no INSERT, DELETE, ASK or
\* DESCRIBE text is evaluated.
C2_EngineOnlySelectShaped ==
  /\ \A i \in 1..Len(calls) : \A j \in 1..Len(calls[i].outcome.engine) :
        /\ calls[i].outcome.engine[j].type = "project"
        /\ QueryForm(calls[i].outcome.engine[j].query) = "SELECT"
  /\ derived.called =>
        \A j \in 1..Len(derived.outcome.engine) :
          /\ derived.outcome.engine[j].type = "project"
          /\ QueryForm(derived.outcome.engine[j].query) = "SELECT"

\* createDerived has run on an editor text that is an ASK or an INSERT, with
\* rows shown and a convertible credential in the wallet, and no evaluation
\* took place.
C2_Witness ==
  /\ derived.called
  /\ translate(derived.sparqlQuery).type \in {"ask", "deleteinsert"}
  /\ CredAlice \in Range(derived.credentials)
  /\ Len(queryResults) > 0
  /\ derived.outcome.engine = << >>

\* C3: for a SELECT text, executeSPARQLQuery returns the empty sequence
\* without throwing whenever no statement is available: the credential list
\* is empty, or every credential of it failed conversion.
C3_EmptyStoreGivesNoRows ==
  \A i \in 1..Len(calls) :
    LET algebra == translate(calls[i].sparqlQuery)
        creds == calls[i].credentials
    IN (/\ ~algebra.threw /\ algebra.type = "project"
        /\ \A k \in 1..Len(creds) : JsonldToRDF(creds[k]).throws)
       => /\ calls[i].outcome.thrown = NoError
          /\ calls[i].outcome.value = << >>

\* A SELECT text has been run on a list of two credentials that both failed
\* conversion.
C3_Witness ==
  \E i \in 1..Len(calls) :
    /\ translate(calls[i].sparqlQuery).type = "project"
    /\ Len(calls[i].credentials) >= 2
    /\ Len(calls[i].outcome.warned) = Len(calls[i].credentials)
    /\ calls[i].outcome.thrown = NoError

\* C4: materialization isolates per-credential failures, in executeSPARQLQuery
\* and in loadRDF: the store holds exactly the statements of the credentials
\* that were not reported as failed, a credential is reported exactly when its
\* conversion failed, and the batch does not raise.
C4_FailuresIsolated ==
  /\ \A i \in 1..Len(calls) :
        LET c == calls[i]
            ok == {k \in 1..Len(c.credentials) : ~JsonldToRDF(c.credentials[k]).throws}
        IN (translate(c.sparqlQuery).type = "project" /\ c.outcome.thrown = NoError
            /\ Len(c.credentials) > 0) =>
             /\ c.outcome.store = UNION {Range(JsonldToRDF(c.credentials[k]).quads) : k \in ok}
             /\ Range(c.outcome.warned) = {c.credentials[k].id : k \in 1..Len(c.credentials) \ ok}
  /\ LET creds == rdfStore.credentials
          reported == {k \in 1..Len(creds) : creds[k].id \in Range(rdfStore.warned)}
      IN /\ rdfStore.store =
              UNION {Range(JsonldToRDF(creds[k]).quads) : k \in 1..Len(creds) \ reported}
         /\ \A k \in reported : JsonldToRDF(creds[k]).throws \/ NQuadsErrorAt(creds[k]) # 0
         /\ \A k \in 1..Len(creds) \ reported :
               ~JsonldToRDF(creds[k]).throws /\ NQuadsErrorAt(creds[k]) = 0

\* C5: the statement set handed to the engine holds no statement of a named
\* graph.
C5_EngineSourcesDefaultGraphOnly ==
  \A i \in 1..Len(calls) : \A j \in 1..Len(calls[i].outcome.engine) :
    \A quad \in calls[i].outcome.engine[j].sources : quad.graph = DefaultGraph

\* C6: for a non-empty list of source credentials whose dates parse,
\* getValidityPeriodIntersection returns; validFrom is the ISO text of the
\* latest issuance instant of the list; validUntil is the ISO text of the
\* earliest expiration instant among the credentials that define one, and is
\* absent exactly when no credential defines one.
C6_ValidityPeriodIsIntersection ==
  LET n == Len(vpCredentials)
      expiring == {k \in 1..n : vpCredentials[k].expirationDate # NoDate}
  IN (/\ validityPeriod.run
      /\ n > 0
      /\ \A k \in 1..n : NewDate(vpCredentials[k].issuanceDate).valid
      /\ \A k \in expiring : NewDate(vpCredentials[k].expirationDate).valid)
     => /\ validityPeriod.thrown = NoError
        /\ validityPeriod.validFrom.form = "iso"
        /\ \E k \in 1..n : validityPeriod.validFrom.time = vpCredentials[k].issuanceDate.time
        /\ \A k \in 1..n : validityPeriod.validFrom.time >= vpCredentials[k].issuanceDate.time
        /\ (validityPeriod.validUntil = NoDate) <=> (expiring = {})
        /\ expiring # {} =>
             /\ validityPeriod.validUntil.form = "iso"
             /\ \E k \in expiring :
                   validityPeriod.validUntil.time = vpCredentials[k].expirationDate.time
             /\ \A k \in expiring :
                   validityPeriod.validUntil.time <= vpCredentials[k].expirationDate.time

\* The period of two credentials has been computed: the first issued earlier
\* and without expiration, the second issued later (date-only text) and
\* expiring.
C6_Witness ==
  /\ validityPeriod.run
  /\ Len(vpCredentials) = 2
  /\ vpCredentials[1].issuanceDate = DateString("iso", 1)
  /\ vpCredentials[1].expirationDate = NoDate
  /\ vpCredentials[2].issuanceDate = DateString("date", 3)
  /\ vpCredentials[2].expirationDate = DateString("date", 4)
  /\ validityPeriod.validFrom = DateString("iso", 3)
  /\ validityPeriod.validUntil = DateString("iso", 4)

\* C7: when a selected row binds ?subject and the call returns, it returns
\* one credential per distinct ?subject value of the selected rows, in a
\* one-to-one correspondence, and the credential of a value holds exactly the
\* constructed statements whose subject has that value.
C7_OneCredentialPerSubject ==
  LET values == {selectedBindings[i].subject.value :
                   i \in {j \in 1..Len(selectedBindings) : selectedBindings[j].subject # Undefined}}
      creds == derivedCredentials.value
  IN (derivedCredentials.run /\ derivedCredentials.thrown = NoError /\ values # {}) =>
       /\ Len(creds) = Cardinality(values)
       /\ \A v \in values : \E k \in 1..Len(creds) :
             /\ creds[k].credentialSubject.id.value = v
             /\ creds[k].credentialSubject.constructResult =
                  prettyTurtle({quad \in Range(constructQuads) : quad.subject.value = v})

\* C8: when no selected row binds ?subject and the call returns, it returns
\* exactly one credential; the one list hashed is the whole list of
\* constructed statements, the credential carries that digest in its id, its
\* subject id and its proof, and the text it embeds is that of every
\* constructed statement.
C8_CombinedCredential ==
  (/\ derivedCredentials.run
   /\ derivedCredentials.thrown = NoError
   /\ \A i \in 1..Len(selectedBindings) : selectedBindings[i].subject = Undefined)
  => /\ Len(derivedCredentials.value) = 1
     /\ Len(derivedCredentials.hashed) = 1
     /\ derivedCredentials.hashed[1].quads = constructQuads
     /\ LET cred == derivedCredentials.value[1]
            datasetHash == derivedCredentials.hashed[1].digest
        IN /\ cred.id.hash = datasetHash
           /\ cred.credentialSubject.id.hash = datasetHash
           /\ cred.proof.derivationMetadata.datasetHash = datasetHash
           /\ cred.credentialSubject.constructResult = prettyTurtle(Range(constructQuads))
           /\ ~derivedCredentials.hashed[1].fallback =>
                 datasetHash = hashString(Canonize(WriterNTriples(constructQuads)))

\* The call has returned for two constructed statements about two holders
\* and two selected rows that bind ?holder and not ?subject.
C8_Witness ==
  /\ derivedCredentials.run
  /\ derivedCredentials.thrown = NoError
  /\ Len(selectedBindings) = 2
  /\ \A i \in 1..Len(selectedBindings) : selectedBindings[i].subject = Undefined
  /\ Len(constructQuads) = 2
  /\ {constructQuads[1].subject.value, constructQuads[2].subject.value} = {"did:alice", "did:bob"}
  /\ Len(derivedCredentials.value) = 1

\* C11: a call of createDerivedCredentialsFromConstruct in which a step
\* throws (the validity period, a call of the hasher, a call of the
\* formatter) throws a CredentialError with the code
\* CONSTRUCT_DERIVATION_ERROR and returns no credential, whatever had been
\* pushed before; so does a call with an empty source list. A call in which
\* no step throws returns.
C11_AllOrNothing ==
  derivedCredentials.run =>
    LET stepThrows == \/ getValidityPeriodIntersection(sourceCredentials).thrown # NoError
                      \/ derivedCredentials.firstThrow # NoThrow
    IN /\ stepThrows =>
            /\ derivedCredentials.thrown.name = "CredentialError"
            /\ derivedCredentials.thrown.code = "CONSTRUCT_DERIVATION_ERROR"
            /\ derivedCredentials.value = << >>
       /\ Len(sourceCredentials) = 0 => stepThrows
       /\ ~stepThrows => derivedCredentials.thrown = NoError

\* The formatter has thrown on the second subject group after the credential
\* of the first had been pushed.
C11_Witness ==
  /\ derivedCredentials.run
  /\ derivedCredentials.firstThrow = ThrowAt("serialize", 2)
  /\ derivedCredentials.pushed = 1
  /\ derivedCredentials.thrown.code = "CONSTRUCT_DERIVATION_ERROR"

\* C12: a call of createDerivedCredential that returns gives one credential
\* whose queryResults are the rows of the execution of its sparqlQuery on the
\* given credentials, whose sparqlQuery is the text given, whose derivedFrom
\* lists the ids of all the given credentials in their order, whose
\* derivationMetadata.sourceCredentials is their number, and whose queryHash
\* is the digest of the query text alone.
C12_DerivedFromSelect ==
  (derived.called /\ derived.outcome.thrown = NoError) =>
    LET cred == derived.outcome.value
        given == derived.credentials
    IN /\ Len(calls) >= 1
       /\ calls[1].sparqlQuery = derived.sparqlQuery
       /\ calls[1].credentials = given
       /\ calls[1].outcome.thrown = NoError
       /\ cred.credentialSubject.queryResults = calls[1].outcome.value
       /\ cred.credentialSubject.sparqlQuery = derived.sparqlQuery
       /\ cred.credentialSubject.derivedFrom = [i \in 1..Len(given) |-> given[i].id]
       /\ cred.derivationMetadata.sourceCredentials = Len(given)
       /\ cred.derivationMetadata.queryHash = [sha256 |-> derived.sparqlQuery]

\* A credential has been derived from two sources, one of which failed
\* conversion, with rows in it.
C12_Witness ==
  /\ derived.called
  /\ derived.outcome.thrown = NoError
  /\ Len(derived.credentials) = 2
  /\ Len(derived.outcome.warned) = 1
  /\ Len(derived.outcome.value.credentialSubject.queryResults) > 0

\* C13: executeConstructQuery is called only while the rows shown are the
\* preview of a CONSTRUCT query and at least one of them is selected, and it
\* is handed the selected rows, each once, and no other row; the rows shown
\* under isConstructQuery are always those a successful executeQuery on a
\* CONSTRUCT text has just set, with an empty selection.
C13_ConstructAfterPreviewAndSelection ==
  /\ [](constructed.run =>
          /\ isConstructQuery
          /\ Len(selectedResults) > 0
          /\ Range(selectedResults) \subseteq 1..Len(queryResults)
          /\ Len(constructed.selectedBindings) = Len(selectedResults)
          /\ \A k \in 1..Len(selectedResults) :
               /\ constructed.selectedBindings[k] = queryResults[selectedResults[k]]
               /\ \A j \in 1..Len(selectedResults) : selectedResults[j] = selectedResults[k] => j = k)
  /\ [][(isConstructQuery' /\ queryResults' # << >>
          /\ << isConstructQuery, queryResults >> # << isConstructQuery', queryResults' >>) =>
          /\ translate(query).type = "construct"
          /\ query' = query
          /\ Len(calls') = 1
          /\ calls'[1].sparqlQuery = ExtractedSelect(query)
          /\ calls'[1].outcome.thrown = NoError
          /\ queryResults' = calls'[1].outcome.value
          /\ selectedResults' = << >>]_vars

\* A construction has been run on one selected row of a preview of two.
C13_Witness ==
  /\ constructed.run
  /\ Len(queryResults) = 2
  /\ selectedResults = << 2 >>
  /\ constructed.selectedBindings = << queryResults[2] >>

\* C14: convertToTurtle never rejects: whatever step of the primary path
\* fails, its promise resolves to a text, that of the hand-written serializer
\* when the conversion of the document fails.
C14_ConvertToTurtleNeverRejects ==
  turtle.run =>
    /\ turtle.outcome.rejected = NoError
    /\ turtle.outcome.value # << >>
    /\ JsonldToRDF(turtle.credential).throws => turtle.outcome.value.kind = "enhanced"

\* C15: a failure of the parser or of the engine reaches the caller of
\* executeSPARQLQuery and the caller of createDerivedCredential as a
\* CredentialError with code SPARQL_ERROR whose message ends with the original
\* message, and a query type that is not supported reaches both as
\* UNSUPPORTED_QUERY_TYPE; neither caller gets an error of another code.
C15_FailuresSurfacedVerbatim ==
  LET Surfaced(text, thrown) ==
        /\ thrown.name = "CredentialError"
        /\ IF translate(text).threw
           THEN thrown.code = "SPARQL_ERROR"
                /\ thrown.message[Len(thrown.message)] = "Parse error"
           ELSE IF translate(text).type # "project"
           THEN thrown.code = "UNSUPPORTED_QUERY_TYPE"
           ELSE thrown.code = "SPARQL_ERROR"
                /\ thrown.message[Len(thrown.message)] = "Engine error"
  IN /\ \A i \in 1..Len(calls) :
          calls[i].outcome.thrown # NoError =>
            Surfaced(calls[i].sparqlQuery, calls[i].outcome.thrown)
     /\ (derived.called /\ derived.outcome.thrown # NoError) =>
          Surfaced(derived.sparqlQuery, derived.outcome.thrown)

\* C16: no call of executeSPARQLQuery, createDerivedCredential,
\* createDerivedCredentialsFromConstruct or convertToTurtle changes a
\* credential it is given, and no credential it returns is one of those it
\* was given.
C16_SourcesNeverMutated ==
  [][/\ credentials' = credentials
     /\ sourceCredentials' = sourceCredentials
     /\ (derived'.called /\ derived'.outcome.thrown = NoError) =>
          /\ derived'.outcome.value \notin Range(credentials)
          /\ derived'.credentials = credentials
     /\ derivedCredentials'.run =>
          \A i \in 1..Len(derivedCredentials'.value) :
            derivedCredentials'.value[i] \notin Range(sourceCredentials)
     /\ turtle'.run => turtle'.credential \in Range(credentials')
     /\ \A i \in 1..Len(calls') : calls'[i].credentials = credentials]_vars

\* Credentials have been derived from a query and from a construction, each
\* from a source list that is not empty.
C16_Witness ==
  /\ derived.called /\ derived.outcome.thrown = NoError /\ Len(credentials) = 2
  /\ derivedCredentials.run /\ Len(derivedCredentials.value) = 1 /\ Len(sourceCredentials) = 1

\* C17: no request sent to a remote host carries content taken from the
\* credentials held: no credential type and no statement of the combined RDF
\* text.
C17_NoCredentialDataInRequests ==
  \A i \in 1..Len(requests) :
    /\ requests[i].systemPrompt.credentialTypes = << >>
    /\ requests[i].systemPrompt.rdfData.quads = {}

\* C18: when the writer or canonize fails, canonicalizeAndHash returns the
\* digest of the clock and a random number, whatever the statements; when
\* they succeed, two calls on the same list return the same digest.
C18_FallbackDigest ==
  (digestA.run /\ digestB.run) =>
    /\ digestA.fallback =>
         \E now \in Clock, random \in Randoms : digestA.digest = [sha256 |-> Stamp(now, random)]
    /\ digestB.fallback =>
         \E now \in Clock, random \in Randoms : digestB.digest = [sha256 |-> Stamp(now, random)]
    /\ (hashQuadsA = hashQuadsB /\ ~digestA.fallback /\ ~digestB.fallback) =>
         digestA.digest = digestB.digest

\* Two calls on the same list of statements have both failed to canonicalize
\* and have returned different digests.
C18_Witness ==
  /\ digestA.run /\ digestB.run
  /\ hashQuadsA = hashQuadsB /\ Len(hashQuadsA) = 2
  /\ digestA.fallback /\ digestB.fallback
  /\ digestA.digest # digestB.digest

\* C19: for every credential createDerivedCredentialsFromConstruct returns,
\* the hasher was called on the statements that credential holds and on no
\* other, the credential's id and its derivationMetadata.datasetHash are the
\* digest of that call, derivationMetadata.sourceCredentials is the number of
\* source credentials and, when the credential is for a subject, its
\* subjectBinding is its credentialSubject.id.
C19_OwnSubsetHash ==
  (derivedCredentials.run /\ derivedCredentials.thrown = NoError) =>
    /\ Len(derivedCredentials.hashed) = Len(derivedCredentials.value)
    /\ \A i \in 1..Len(derivedCredentials.value) :
         LET cred == derivedCredentials.value[i]
             call == derivedCredentials.hashed[i]
             perSubject == cred.credentialSubject.id.prefix = ""
             own == IF perSubject
                    THEN SelectSeq(constructQuads,
                           LAMBDA quad : quad.subject.value = cred.credentialSubject.id.value)
                    ELSE constructQuads
         IN /\ call.quads = own
            /\ cred.credentialSubject.constructResult = prettyTurtle(Range(own))
            /\ ~call.fallback => call.digest = [sha256 |-> Canonize(WriterNTriples(own))]
            /\ cred.id = [prefix |-> "did:example:derived:", hash |-> call.digest]
            /\ cred.proof.derivationMetadata.datasetHash = call.digest
            /\ cred.proof.derivationMetadata.sourceCredentials = Len(sourceCredentials)
            /\ perSubject =>
                 cred.proof.derivationMetadata.subjectBinding = cred.credentialSubject.id.value

\* Two credentials have been returned, for two subjects with one statement
\* each, with different digests.
C19_Witness ==
  /\ derivedCredentials.run /\ derivedCredentials.thrown = NoError
  /\ Len(derivedCredentials.value) = 2
  /\ Len(sourceCredentials) = 1
  /\ derivedCredentials.value[1].credentialSubject.id.value = "did:alice"
  /\ derivedCredentials.value[2].credentialSubject.id.value = "did:bob"
  /\ derivedCredentials.value[1].id # derivedCredentials.value[2].id
  /\ ~derivedCredentials.hashed[1].fallback /\ ~derivedCredentials.hashed[2].fallback

C21_PrefixesReattached ==
  (extracted.run /\ "constructQuery" \in DOMAIN extracted) =>
    /\ \A i \in 1..Len(extracted.constructQuery.prefixes) :
         \E j \in 1..Len(extracted.prefixes) :
           extracted.prefixes[j] = extracted.constructQuery.prefixes[i]
    /\ extracted.constructQuery.prefixes = << >> => extracted.prefixes = << >>
    /\ \A i \in 1..Len(extracted.body) :
         extracted.body[i].termType = "PrefixedName" =>
           \E j \in 1..Len(extracted.prefixes) :
             extracted.prefixes[j].label = extracted.body[i].label

\* C27: whenever executeConstruct calls executeConstructQuery, the text it
\* passes is the CONSTRUCT query whose preview gave the rows passed: the
\* text is a CONSTRUCT query and every row passed is a row of the SELECT
\* extracted from that text, evaluated over the credentials passed.
C27_ConstructUsesPreviewedQuery ==
  constructed.run =>
    /\ ~translate(constructed.query).threw
    /\ translate(constructed.query).type = "construct"
    /\ \E engineThrows \in BOOLEAN :
         LET preview == executeSPARQLQuery(ExtractedSelect(constructed.query),
                                           constructed.credentials, engineThrows)
         IN /\ preview.thrown = NoError
            /\ \A k \in 1..Len(constructed.selectedBindings) :
                 \E row \in 1..Len(preview.value) :
                   constructed.selectedBindings[k] = preview.value[row]

\* C28: every selected index is the index of a row shown.
C28_SelectionWithinRows ==
  \A k \in 1..Len(selectedResults) : selectedResults[k] \in 1..Len(queryResults)

\* C24: a credential returned by createDerivedCredentialsFromConstruct with
\* an expirationDate has an issuanceDate that is not later.
C24_ValidityWindowNotInverted ==
  (derivedCredentials.run /\ derivedCredentials.thrown = NoError) =>
    \A k \in 1..Len(derivedCredentials.value) :
      derivedCredentials.value[k].expirationDate # NoDate =>
        derivedCredentials.value[k].issuanceDate.time
          <= derivedCredentials.value[k].expirationDate.time

\* C25: every statement handed to createDerivedCredentialsFromConstruct is
\* among the statements of at least one credential it returns.
C25_NoStatementLost ==
  (derivedCredentials.run /\ derivedCredentials.thrown = NoError) =>
    \A i \in 1..Len(constructQuads) :
      \E k \in 1..Len(derivedCredentials.hashed) :
        constructQuads[i] \in Range(derivedCredentials.hashed[k].quads)

\* C26: the credentials one call of createDerivedCredentialsFromConstruct
\* returns have ids that differ pairwise.
C26_DistinctIds ==
  (derivedCredentials.run /\ derivedCredentials.thrown = NoError) =>
    \A j, k \in 1..Len(derivedCredentials.value) :
      j # k => derivedCredentials.value[j].id # derivedCredentials.value[k].id

\* C23: callLLMForSPARQLAssistance asks the providers that have a key in
\* the order OpenRouter, Groq, Together AI, Hugging Face, OpenAI, Anthropic;
\* it stops at the first that answers without an error and returns that
\* answer; it returns the fallback only after every provider with a key
\* has been asked; and the provider validateLLMConfiguration reports is one
\* that it asks.
C23_ProviderChain ==
  reply.run =>
    LET hosts == Providers \o << "api.anthropic.com" >>
        keyed == SelectSeq([i \in 1..6 |-> i], LAMBDA i : i \in apiKeys)
        asked == [k \in 1..Len(requests) |-> requests[k].host]
        names == << "OpenRouter (Free)", "Groq (Free)", "Together AI (Free)",
                    "Hugging Face (Free)", "OpenAI (Paid)", "Anthropic (Paid)" >>
        config == validateLLMConfiguration(apiKeys)
    IN /\ Len(asked) <= Len(keyed)
       /\ \A k \in 1..Len(asked) : asked[k] = hosts[keyed[k]]
       /\ reply.error = << >> =>
            /\ Len(asked) > 0
            /\ reply.content = asked[Len(asked)]
       /\ reply.error # << >> => Len(asked) = Len(keyed)
       /\ config.isConfigured =>
            \E i \in 1..6 : /\ names[i] = config.provider
                            /\ \E k \in 1..Len(asked) : asked[k] = hosts[i]

\* C29: every credential added is in the wallet's list and in the copy kept
\* in localStorage, and the two lists are equal.
C29_NoAddLost ==
  /\ localStorage = credentials
  /\ \A k \in 1..Len(added) :
       /\ \E i \in 1..Len(credentials) : credentials[i] = added[k]
       /\ \E i \in 1..Len(localStorage) : localStorage[i] = added[k]

C30_EffectsOfLatestCredentials ==
  (\A i \in 1..Len(inFlight) : inFlight[i].op \notin {"loadRDF", "filterSampleQueries"}) =>
    /\ \E prettyThrows \in BOOLEAN : rdfData = LoadRDF(credentials, prettyThrows)
    /\ \E failing \in SUBSET SelectSamples :
         availableSampleQueries = filterSampleQueries(credentials, failing)

====
